---- MODULE Spec2Model ----
(***************************************************************************)
(* Order-history diffing and snapshot retention of tesla-delivery-tui.     *)
(*                                                                         *)
(* Go values are modelled as follows.  A string is a TLA+ string.  A       *)
(* pointer (to a string, to a SchedulingTask, ...) is a sequence of length  *)
(* at most one: << >> is nil and <<v>> points at v.  A struct is a record  *)
(* with the Go field names.  A JSON object member is again a sequence of   *)
(* length at most one: << >> when the key is not written.                  *)
(***************************************************************************)
EXTENDS Integers, Sequences, FiniteSets, Bags, TLC

----------------------------------------------------------------------------
(* Bounds of the model *)

\* number of single-field edits applied to a base order in the diff engine runs
MaxEdits == 2

\* longest history handed directly to SaveHistory
MaxSaveLen == 21

\* latest instant the clock reaches; instants are counted in observations and
\* the first observation of a run is made at instant 1
MaxTime == 3

\* structural variants of an order are submitted while at most this many
\* snapshots are stored
MaxVariantLen == 1

\* the refreshes (calls of loadOrders) of one session of the TUI
MaxRefreshes == 3

\* the requests and file operations that fail in one session of the TUI
MaxFaults == 1

\* the instants at which AddSnapshot appends to a history built by AddSnapshot
\* alone: enough for SaveHistory to prune it
MaxAppends == 22

\* the goroutines of commands a session has in flight when the user starts
\* another command
MaxGoroutines == 2

\* the number of doRequest calls that run on the client at once
MaxRequests == 2

----------------------------------------------------------------------------
(* internal/model: TeslaOrder, OrderTasks, CombinedOrder *)

NA == "N/A"

Nil == << >>

Ptr(v) == << v >>

IsNil(p) == Len(p) = 0

Deref(p) == p[1]

\* RegistrationOrderDetails with every string at its zero value
ZeroRegistrationOrderDetails ==
  [ VehicleRoutingLocation |-> "", VehicleOdometer |-> "",
    VehicleOdometerType |-> "", ReservationDate |-> "", OrderBookedDate |-> "" ]

\* SchedulingTask with every compared string at its zero value
ZeroSchedulingTask ==
  [ DeliveryWindowDisplay |-> "", ApptDateTimeAddressStr |-> "",
    DeliveryType |-> "", DeliveryAddressTitle |-> "" ]

ZeroFinalPaymentData == [ ETAToDeliveryCenter |-> "" ]

ZeroDeliveryDetailsRegData == [ ReggieLicensePlate |-> "" ]

\* CombinedOrder{Order: TeslaOrder{ReferenceNumber: ref, OrderStatus: status}}
ZeroCombinedOrder(ref, status) ==
  [ Order   |-> [ ReferenceNumber |-> ref, OrderStatus |-> status,
                  ModelCode |-> "", VIN |-> Nil, MktOptions |-> Nil ],
    Details |-> [ Tasks |-> [ Scheduling |-> Nil, Registration |-> Nil,
                              FinalPayment |-> Nil, DeliveryDetails |-> Nil,
                              Raw |-> Nil ],
                  RawJSON |-> Nil ] ]

\* GetVIN without the check for the empty string
GetVIN_NilOnly(o) ==
  IF ~IsNil(o.VIN) THEN Deref(o.VIN) ELSE NA

GetVIN(o) ==
  IF ~IsNil(o.VIN) /\ Deref(o.VIN) # "" THEN Deref(o.VIN) ELSE NA

GetDeliveryWindow(c) ==
  LET s == c.Details.Tasks.Scheduling IN
  IF ~IsNil(s) /\ Deref(s).DeliveryWindowDisplay # ""
  THEN Deref(s).DeliveryWindowDisplay ELSE NA

GetDeliveryAppointment(c) ==
  LET s == c.Details.Tasks.Scheduling IN
  IF ~IsNil(s) /\ Deref(s).ApptDateTimeAddressStr # ""
  THEN Deref(s).ApptDateTimeAddressStr ELSE NA

GetETAToDeliveryCenter(c) ==
  LET f == c.Details.Tasks.FinalPayment IN
  IF ~IsNil(f) /\ ~IsNil(Deref(f).Data)
  THEN Deref(Deref(f).Data).ETAToDeliveryCenter ELSE NA

GetVehicleLocation(c) ==
  LET r == c.Details.Tasks.Registration IN
  IF ~IsNil(r) /\ ~IsNil(Deref(r).OrderDetails)
  THEN Deref(Deref(r).OrderDetails).VehicleRoutingLocation ELSE NA

GetDeliveryType(c) ==
  LET s == c.Details.Tasks.Scheduling IN
  IF ~IsNil(s) /\ Deref(s).DeliveryType # ""
  THEN Deref(s).DeliveryType ELSE NA

GetDeliveryCenter(c) ==
  LET s == c.Details.Tasks.Scheduling IN
  IF ~IsNil(s) /\ Deref(s).DeliveryAddressTitle # ""
  THEN Deref(s).DeliveryAddressTitle ELSE NA

GetOdometer(c) ==
  LET r == c.Details.Tasks.Registration IN
  IF ~IsNil(r) /\ ~IsNil(Deref(r).OrderDetails)
  THEN LET od == Deref(Deref(r).OrderDetails) IN
       IF od.VehicleOdometer # ""
       THEN IF od.VehicleOdometerType # ""
            THEN od.VehicleOdometer \o " " \o od.VehicleOdometerType
            ELSE od.VehicleOdometer
       ELSE NA
  ELSE NA

GetLicensePlate(c) ==
  LET d == c.Details.Tasks.DeliveryDetails IN
  IF ~IsNil(d) /\ ~IsNil(Deref(d).RegData)
  THEN Deref(Deref(d).RegData).ReggieLicensePlate ELSE NA

GetReservationDate(c) ==
  LET r == c.Details.Tasks.Registration IN
  IF ~IsNil(r) /\ ~IsNil(Deref(r).OrderDetails)
     /\ Deref(Deref(r).OrderDetails).ReservationDate # ""
  THEN Deref(Deref(r).OrderDetails).ReservationDate ELSE NA

GetOrderBookedDate(c) ==
  LET r == c.Details.Tasks.Registration IN
  IF ~IsNil(r) /\ ~IsNil(Deref(r).OrderDetails)
     /\ Deref(Deref(r).OrderDetails).OrderBookedDate # ""
  THEN Deref(Deref(r).OrderDetails).OrderBookedDate ELSE NA

\* the options string normalised the way GetVIN normalises the VIN
MktOptionsOrNA_EmptyIsNA(o) ==
  IF ~IsNil(o.MktOptions) /\ Deref(o.MktOptions) # "" THEN Deref(o.MktOptions) ELSE NA

\* the mktOptions string CompareOrders derives inline
MktOptionsOrNA(o) == IF ~IsNil(o.MktOptions) THEN Deref(o.MktOptions) ELSE NA

\* addDiff that compares the failed type assertion of the new value, ""
addDiff_AssertsWrongType(diffs, field, oldVal, newVal) ==
  IF oldVal # ""
  THEN Append(diffs, [ Field |-> field, OldValue |-> oldVal, NewValue |-> newVal ])
  ELSE diffs

\* the addDiff closure of CompareOrders
addDiff(diffs, field, oldVal, newVal) ==
  IF oldVal # newVal
  THEN Append(diffs, [ Field |-> field, OldValue |-> oldVal, NewValue |-> newVal ])
  ELSE diffs

\* CompareOrders that reports the options before the other fields
CompareOrders_OptionsFirst(old, new) ==
  LET oldOpts == MktOptionsOrNA(old.Order)
      newOpts == MktOptionsOrNA(new.Order)
      d0  == IF oldOpts # newOpts
             THEN << [ Field |-> "Vehicle Options", OldValue |-> oldOpts, NewValue |-> newOpts ] >>
             ELSE << >>
      d1  == addDiff(d0, "Order Status", old.Order.OrderStatus, new.Order.OrderStatus)
      d2  == addDiff(d1, "VIN", GetVIN(old.Order), GetVIN(new.Order))
      d3  == addDiff(d2, "Delivery Window", GetDeliveryWindow(old), GetDeliveryWindow(new))
      d4  == addDiff(d3, "Delivery Appointment", GetDeliveryAppointment(old), GetDeliveryAppointment(new))
      d5  == addDiff(d4, "ETA to Delivery Center", GetETAToDeliveryCenter(old), GetETAToDeliveryCenter(new))
      d6  == addDiff(d5, "Vehicle Location", GetVehicleLocation(old), GetVehicleLocation(new))
      d7  == addDiff(d6, "Delivery Method", GetDeliveryType(old), GetDeliveryType(new))
      d8  == addDiff(d7, "Delivery Center", GetDeliveryCenter(old), GetDeliveryCenter(new))
      d9  == addDiff(d8, "Odometer", GetOdometer(old), GetOdometer(new))
      d10 == addDiff(d9, "License Plate", GetLicensePlate(old), GetLicensePlate(new))
      d11 == addDiff(d10, "Reservation Date", GetReservationDate(old), GetReservationDate(new))
  IN  addDiff(d11, "Order Booked Date", GetOrderBookedDate(old), GetOrderBookedDate(new))

CompareOrders(old, new) ==
  LET d1  == addDiff(<< >>, "Order Status", old.Order.OrderStatus, new.Order.OrderStatus)
      d2  == addDiff(d1, "VIN", GetVIN(old.Order), GetVIN(new.Order))
      d3  == addDiff(d2, "Delivery Window", GetDeliveryWindow(old), GetDeliveryWindow(new))
      d4  == addDiff(d3, "Delivery Appointment", GetDeliveryAppointment(old), GetDeliveryAppointment(new))
      d5  == addDiff(d4, "ETA to Delivery Center", GetETAToDeliveryCenter(old), GetETAToDeliveryCenter(new))
      d6  == addDiff(d5, "Vehicle Location", GetVehicleLocation(old), GetVehicleLocation(new))
      d7  == addDiff(d6, "Delivery Method", GetDeliveryType(old), GetDeliveryType(new))
      d8  == addDiff(d7, "Delivery Center", GetDeliveryCenter(old), GetDeliveryCenter(new))
      d9  == addDiff(d8, "Odometer", GetOdometer(old), GetOdometer(new))
      d10 == addDiff(d9, "License Plate", GetLicensePlate(old), GetLicensePlate(new))
      d11 == addDiff(d10, "Reservation Date", GetReservationDate(old), GetReservationDate(new))
      d12 == addDiff(d11, "Order Booked Date", GetOrderBookedDate(old), GetOrderBookedDate(new))
      oldOpts == MktOptionsOrNA(old.Order)
      newOpts == MktOptionsOrNA(new.Order)
  IN  IF oldOpts # newOpts
      THEN Append(d12, [ Field |-> "Vehicle Options", OldValue |-> oldOpts, NewValue |-> newOpts ])
      ELSE d12

----------------------------------------------------------------------------
(* encoding/json as used for the history record: Marshal and Unmarshal of  *)
(* the tagged structs.  An omitempty member that is not written is << >>.  *)

\* string member tagged omitempty
marshalOmitEmpty(str) == IF str = "" THEN << >> ELSE << str >>

unmarshalString(member) == IF Len(member) = 0 THEN "" ELSE member[1]

\* TeslaOrder written as if omitempty dropped a pointer to the empty string
marshalTeslaOrder_OmitsEmptyVIN(o) ==
  [ referenceNumber |-> o.ReferenceNumber,
    orderStatus     |-> o.OrderStatus,
    modelCode       |-> o.ModelCode,
    vin             |-> IF IsNil(o.VIN) \/ Deref(o.VIN) = "" THEN << >> ELSE << Deref(o.VIN) >>,
    mktOptions      |-> IF IsNil(o.MktOptions) THEN << >> ELSE << Deref(o.MktOptions) >> ]

marshalTeslaOrder(o) ==
  [ referenceNumber |-> o.ReferenceNumber,
    orderStatus     |-> o.OrderStatus,
    modelCode       |-> o.ModelCode,
    vin             |-> IF IsNil(o.VIN) THEN << >> ELSE << Deref(o.VIN) >>,
    mktOptions      |-> IF IsNil(o.MktOptions) THEN << >> ELSE << Deref(o.MktOptions) >> ]

unmarshalTeslaOrder(j) ==
  [ ReferenceNumber |-> j.referenceNumber,
    OrderStatus     |-> j.orderStatus,
    ModelCode       |-> j.modelCode,
    VIN             |-> IF Len(j.vin) = 0 THEN Nil ELSE Ptr(j.vin[1]),
    MktOptions      |-> IF Len(j.mktOptions) = 0 THEN Nil ELSE Ptr(j.mktOptions[1]) ]

marshalSchedulingTask(t) ==
  [ deliveryWindowDisplay  |-> marshalOmitEmpty(t.DeliveryWindowDisplay),
    apptDateTimeAddressStr |-> marshalOmitEmpty(t.ApptDateTimeAddressStr),
    deliveryType           |-> marshalOmitEmpty(t.DeliveryType),
    deliveryAddressTitle   |-> marshalOmitEmpty(t.DeliveryAddressTitle) ]

unmarshalSchedulingTask(j) ==
  [ DeliveryWindowDisplay  |-> unmarshalString(j.deliveryWindowDisplay),
    ApptDateTimeAddressStr |-> unmarshalString(j.apptDateTimeAddressStr),
    DeliveryType           |-> unmarshalString(j.deliveryType),
    DeliveryAddressTitle   |-> unmarshalString(j.deliveryAddressTitle) ]

marshalRegistrationOrderDetails(d) ==
  [ vehicleRoutingLocation |-> marshalOmitEmpty(d.VehicleRoutingLocation),
    vehicleOdometer        |-> marshalOmitEmpty(d.VehicleOdometer),
    vehicleOdometerType    |-> marshalOmitEmpty(d.VehicleOdometerType),
    reservationDate        |-> marshalOmitEmpty(d.ReservationDate),
    orderBookedDate        |-> marshalOmitEmpty(d.OrderBookedDate) ]

unmarshalRegistrationOrderDetails(j) ==
  [ VehicleRoutingLocation |-> unmarshalString(j.vehicleRoutingLocation),
    VehicleOdometer        |-> unmarshalString(j.vehicleOdometer),
    VehicleOdometerType    |-> unmarshalString(j.vehicleOdometerType),
    ReservationDate        |-> unmarshalString(j.reservationDate),
    OrderBookedDate        |-> unmarshalString(j.orderBookedDate) ]

marshalRegistrationTask(t) ==
  [ orderDetails |-> IF IsNil(t.OrderDetails) THEN << >>
                     ELSE << marshalRegistrationOrderDetails(Deref(t.OrderDetails)) >> ]

unmarshalRegistrationTask(j) ==
  [ OrderDetails |-> IF Len(j.orderDetails) = 0 THEN Nil
                     ELSE Ptr(unmarshalRegistrationOrderDetails(j.orderDetails[1])) ]

marshalFinalPaymentTask(t) ==
  [ data |-> IF IsNil(t.Data) THEN << >>
             ELSE << [ etaToDeliveryCenter |->
                         marshalOmitEmpty(Deref(t.Data).ETAToDeliveryCenter) ] >> ]

unmarshalFinalPaymentTask(j) ==
  [ Data |-> IF Len(j.data) = 0 THEN Nil
             ELSE Ptr([ ETAToDeliveryCenter |->
                          unmarshalString(j.data[1].etaToDeliveryCenter) ]) ]

marshalDeliveryDetailsTask(t) ==
  [ regData |-> IF IsNil(t.RegData) THEN << >>
                ELSE << [ reggieLicensePlate |->
                            marshalOmitEmpty(Deref(t.RegData).ReggieLicensePlate) ] >> ]

unmarshalDeliveryDetailsTask(j) ==
  [ RegData |-> IF Len(j.regData) = 0 THEN Nil
                ELSE Ptr([ ReggieLicensePlate |->
                             unmarshalString(j.regData[1].reggieLicensePlate) ]) ]

\* OrderTasks: Raw is tagged json:"-" and is not written
marshalOrderTasks(t) ==
  [ scheduling      |-> IF IsNil(t.Scheduling) THEN << >>
                        ELSE << marshalSchedulingTask(Deref(t.Scheduling)) >>,
    registration    |-> IF IsNil(t.Registration) THEN << >>
                        ELSE << marshalRegistrationTask(Deref(t.Registration)) >>,
    finalPayment    |-> IF IsNil(t.FinalPayment) THEN << >>
                        ELSE << marshalFinalPaymentTask(Deref(t.FinalPayment)) >>,
    deliveryDetails |-> IF IsNil(t.DeliveryDetails) THEN << >>
                        ELSE << marshalDeliveryDetailsTask(Deref(t.DeliveryDetails)) >> ]

unmarshalOrderTasks(j) ==
  [ Scheduling      |-> IF Len(j.scheduling) = 0 THEN Nil
                        ELSE Ptr(unmarshalSchedulingTask(j.scheduling[1])),
    Registration    |-> IF Len(j.registration) = 0 THEN Nil
                        ELSE Ptr(unmarshalRegistrationTask(j.registration[1])),
    FinalPayment    |-> IF Len(j.finalPayment) = 0 THEN Nil
                        ELSE Ptr(unmarshalFinalPaymentTask(j.finalPayment[1])),
    DeliveryDetails |-> IF Len(j.deliveryDetails) = 0 THEN Nil
                        ELSE Ptr(unmarshalDeliveryDetailsTask(j.deliveryDetails[1])),
    Raw             |-> Nil ]

\* CombinedOrder; OrderDetails.RawJSON is tagged json:"-" and is not written
marshalCombinedOrder(c) ==
  [ order   |-> marshalTeslaOrder(c.Order),
    details |-> [ tasks |-> marshalOrderTasks(c.Details.Tasks) ] ]

unmarshalCombinedOrder(j) ==
  [ Order   |-> unmarshalTeslaOrder(j.order),
    Details |-> [ Tasks |-> unmarshalOrderTasks(j.details.tasks), RawJSON |-> Nil ] ]

marshalHistoricalSnapshot(s) ==
  [ timestamp |-> s.Timestamp, data |-> marshalCombinedOrder(s.Data) ]

unmarshalHistoricalSnapshot(j) ==
  [ Timestamp |-> j.timestamp, Data |-> unmarshalCombinedOrder(j.data) ]

marshalOrderHistory(h) ==
  [ referenceNumber |-> h.ReferenceNumber,
    snapshots       |-> [ i \in 1..Len(h.Snapshots) |->
                            marshalHistoricalSnapshot(h.Snapshots[i]) ] ]

unmarshalOrderHistory(j) ==
  [ ReferenceNumber |-> j.referenceNumber,
    Snapshots       |-> [ i \in 1..Len(j.snapshots) |->
                            unmarshalHistoricalSnapshot(j.snapshots[i]) ] ]

----------------------------------------------------------------------------
(* internal/storage: History *)

maxHistoryEntries == 20

\* the reference numbers of the model; historyFilePath maps each to its own file
Refs == { "RN1", "RN2" }

\* the history directory before any record is written: no file for any order
NoFiles == [ r \in Refs |-> Nil ]

\* what os.WriteFile leaves in a file once it has written all of data
WrittenFile(data) == [ complete |-> TRUE, json |-> data ]

\* what os.WriteFile leaves in a file when it stops after it has truncated the
\* file and before it has written all of data: a proper prefix of the bytes
\* of data, possibly empty, which is never a JSON document. The prefixes are
\* not told apart: json holds what a parser can still recover, nothing.
PartialFile(data) ==
  [ complete |-> FALSE,
    json     |-> [ referenceNumber |-> data.referenceNumber, snapshots |-> << >> ] ]

\* the outcomes of os.ReadFile: "" is the outcome the file itself decides
\* (its data, or os.ErrNotExist when there is no file), "EIO" an error other
\* than os.ErrNotExist
ReadFaults == { "", "EIO" }

\* the outcomes of os.WriteFile: "" is success, "open" a failure to open the
\* file (the file is left as it was), "write" a failure of write(2) or
\* close(2) after the file was opened with O_TRUNC
WriteFaults == { "", "open", "write" }

\* LoadHistory without the os.IsNotExist case
LoadHistory_MissingIsError(fs, referenceNumber, readFault) ==
  IF IsNil(fs[referenceNumber]) \/ readFault # ""
  THEN [ history |-> Nil, err |-> "failed to read history file" ]
  ELSE IF ~Deref(fs[referenceNumber]).complete
  THEN [ history |-> Nil, err |-> "failed to parse history file" ]
  ELSE [ history |-> Ptr(unmarshalOrderHistory(Deref(fs[referenceNumber]).json)),
         err     |-> "" ]

\* LoadHistory on the directory fs; the result is the pair (history, error).
\* A missing file is an empty history; any other read error is returned; a
\* file that does not hold a complete JSON document fails to parse.
LoadHistory(fs, referenceNumber, readFault) ==
  IF readFault # ""
  THEN [ history |-> Nil, err |-> "failed to read history file" ]
  ELSE IF IsNil(fs[referenceNumber])
  THEN [ history |-> Ptr([ ReferenceNumber |-> referenceNumber, Snapshots |-> << >> ]),
         err     |-> "" ]
  ELSE IF ~Deref(fs[referenceNumber]).complete
  THEN [ history |-> Nil, err |-> "failed to parse history file" ]
  ELSE [ history |-> Ptr(unmarshalOrderHistory(Deref(fs[referenceNumber]).json)),
         err     |-> "" ]

\* pruning that keeps one entry too many
Prune_OffByOne(snapshots) ==
  IF Len(snapshots) > maxHistoryEntries
  THEN SubSeq(snapshots, Len(snapshots) - maxHistoryEntries, Len(snapshots))
  ELSE snapshots

\* pruning that keeps the oldest entries
Prune_KeepsOldest(snapshots) ==
  IF Len(snapshots) > maxHistoryEntries
  THEN SubSeq(snapshots, 1, maxHistoryEntries)
  ELSE snapshots

\* the pruning step of SaveHistory
Prune(snapshots) ==
  IF Len(snapshots) > maxHistoryEntries
  THEN SubSeq(snapshots, Len(snapshots) - maxHistoryEntries + 1, Len(snapshots))
  ELSE snapshots

\* SaveHistory with one file for all orders
SaveHistory_SharedFile(fs, history, writeFault) ==
  LET pruned == [ history EXCEPT !.Snapshots = Prune(@) ]
      data   == marshalOrderHistory(pruned)
  IN  IF writeFault = ""
      THEN [ files |-> [ r \in DOMAIN fs |-> Ptr(WrittenFile(data)) ], err |-> "" ]
      ELSE IF writeFault = "open"
      THEN [ files |-> fs, err |-> "failed to write history file" ]
      ELSE [ files |-> [ r \in DOMAIN fs |-> Ptr(PartialFile(data)) ],
             err   |-> "failed to write history file" ]

\* SaveHistory: the directory after os.WriteFile on the file of the history,
\* and the error
SaveHistory(fs, history, writeFault) ==
  LET pruned == [ history EXCEPT !.Snapshots = Prune(@) ]
      data   == marshalOrderHistory(pruned)
  IN  IF writeFault = ""
      THEN [ files |-> [ fs EXCEPT ![history.ReferenceNumber] = Ptr(WrittenFile(data)) ],
             err   |-> "" ]
      ELSE IF writeFault = "open"
      THEN [ files |-> fs, err |-> "failed to write history file" ]
      ELSE [ files |-> [ fs EXCEPT ![history.ReferenceNumber] = Ptr(PartialFile(data)) ],
             err   |-> "failed to write history file" ]

\* the instant time.Now() returns when a snapshot is appended to snapshots:
\* one observation later than the newest stored snapshot
TimeNow(snapshots) ==
  IF Len(snapshots) = 0 THEN 1 ELSE snapshots[Len(snapshots)].Timestamp + 1

\* AddSnapshot that appends whether or not anything changed
AddSnapshot_AlwaysAppends(fs, order, readFault, writeFault) ==
  LET loaded == LoadHistory(fs, order.Order.ReferenceNumber, readFault)
  IN  IF loaded.err # ""
      THEN [ files |-> fs, diffs |-> << >>, err |-> "failed to load history", saved |-> FALSE ]
      ELSE
        LET history == Deref(loaded.history)
            n       == Len(history.Snapshots)
            diffs   == IF n > 0
                       THEN CompareOrders(history.Snapshots[n].Data, order)
                       ELSE << >>
            grown   == [ history EXCEPT !.Snapshots =
                           Append(@, [ Timestamp |-> TimeNow(history.Snapshots),
                                       Data      |-> order ]) ]
            written == SaveHistory(fs, grown, writeFault)
        IN  IF written.err # ""
            THEN [ files |-> written.files, diffs |-> << >>,
                   err |-> "failed to save history", saved |-> TRUE ]
            ELSE [ files |-> written.files, diffs |-> diffs, err |-> "", saved |-> TRUE ]

\* AddSnapshot that drops the error of SaveHistory
AddSnapshot_IgnoresSaveError(fs, order, readFault, writeFault) ==
  LET loaded == LoadHistory(fs, order.Order.ReferenceNumber, readFault)
  IN  IF loaded.err # ""
      THEN [ files |-> fs, diffs |-> << >>, err |-> "failed to load history", saved |-> FALSE ]
      ELSE
        LET history == Deref(loaded.history)
            n       == Len(history.Snapshots)
            diffs   == IF n > 0
                       THEN CompareOrders(history.Snapshots[n].Data, order)
                       ELSE << >>
            add     == Len(diffs) > 0 \/ n = 0
            grown   == [ history EXCEPT !.Snapshots =
                           Append(@, [ Timestamp |-> TimeNow(history.Snapshots),
                                       Data      |-> order ]) ]
            written == SaveHistory(fs, grown, writeFault)
        IN  IF ~add
            THEN [ files |-> fs, diffs |-> diffs, err |-> "", saved |-> FALSE ]
            ELSE [ files |-> written.files, diffs |-> diffs, err |-> "", saved |-> TRUE ]

\* AddSnapshot on the directory fs: the directory afterwards, the returned
\* (diffs, error) and whether SaveHistory was called
AddSnapshot(fs, order, readFault, writeFault) ==
  LET loaded == LoadHistory(fs, order.Order.ReferenceNumber, readFault)
  IN  IF loaded.err # ""
      THEN [ files |-> fs, diffs |-> << >>, err |-> "failed to load history", saved |-> FALSE ]
      ELSE
        LET history == Deref(loaded.history)
            n       == Len(history.Snapshots)
            diffs   == IF n > 0
                       THEN CompareOrders(history.Snapshots[n].Data, order)
                       ELSE << >>
            add     == Len(diffs) > 0 \/ n = 0
            grown   == [ history EXCEPT !.Snapshots =
                           Append(@, [ Timestamp |-> TimeNow(history.Snapshots),
                                       Data      |-> order ]) ]
            written == SaveHistory(fs, grown, writeFault)
        IN  IF ~add
            THEN [ files |-> fs, diffs |-> diffs, err |-> "", saved |-> FALSE ]
            ELSE IF written.err # ""
            THEN [ files |-> written.files, diffs |-> << >>,
                   err |-> "failed to save history", saved |-> TRUE ]
            ELSE [ files |-> written.files, diffs |-> diffs, err |-> "", saved |-> TRUE ]

\* GetLatestSnapshot that reports an empty history as an error
GetLatestSnapshot_EmptyIsError(fs, referenceNumber, readFault) ==
  LET loaded == LoadHistory(fs, referenceNumber, readFault)
  IN  IF loaded.err # ""
      THEN [ snapshot |-> Nil, err |-> loaded.err ]
      ELSE IF Len(Deref(loaded.history).Snapshots) = 0
      THEN [ snapshot |-> Nil, err |-> "no snapshots" ]
      ELSE [ snapshot |-> Ptr(Deref(loaded.history).Snapshots[
                                Len(Deref(loaded.history).Snapshots)]),
             err      |-> "" ]

\* GetLatestSnapshot: the pair (snapshot, error); the snapshot is nil or a
\* pointer to the newest stored snapshot
GetLatestSnapshot(fs, referenceNumber, readFault) ==
  LET loaded == LoadHistory(fs, referenceNumber, readFault)
  IN  IF loaded.err # ""
      THEN [ snapshot |-> Nil, err |-> loaded.err ]
      ELSE IF Len(Deref(loaded.history).Snapshots) = 0
      THEN [ snapshot |-> Nil, err |-> "" ]
      ELSE [ snapshot |-> Ptr(Deref(loaded.history).Snapshots[
                                Len(Deref(loaded.history).Snapshots)]),
             err      |-> "" ]


----------------------------------------------------------------------------
(* internal/storage: Checklist *)

\* the item IDs ToggleItem is called with: two items of DeliveryChecklist and
\* one ID that is not in it
ItemIDs == { "finance_sorted", "insured", "paint_check" }

\* the checklist directory before any state is saved
NoChecklists == [ r \in Refs |-> Nil ]

\* a Go map[string]bool as a function on its keys; make(map[string]bool)
EmptyMap == [ id \in { } |-> FALSE ]

\* m[id] of a Go map: the zero value when the key is missing
MapGet(m, id) == IF id \in DOMAIN m THEN m[id] ELSE FALSE

\* m[id] = v of a Go map
MapSet(m, id, v) == [ k \in DOMAIN m \cup { id } |-> IF k = id THEN v ELSE m[k] ]

\* encoding/json on a ChecklistState: a nil map is written as null
marshalChecklistState(state) ==
  [ referenceNumber |-> state.ReferenceNumber, checked |-> state.Checked ]

unmarshalChecklistState(j) ==
  [ ReferenceNumber |-> j.referenceNumber, Checked |-> j.checked ]

\* LoadState: the pair (state, error). A missing file is a state with an
\* empty map; a nil map read from the file is replaced by an empty one.
LoadState(fs, referenceNumber, readFault) ==
  IF readFault # ""
  THEN [ state |-> Nil, err |-> "failed to read checklist file" ]
  ELSE IF IsNil(fs[referenceNumber])
  THEN [ state |-> Ptr([ ReferenceNumber |-> referenceNumber, Checked |-> Ptr(EmptyMap) ]),
         err   |-> "" ]
  ELSE IF ~Deref(fs[referenceNumber]).complete
  THEN [ state |-> Nil, err |-> "failed to parse checklist file" ]
  ELSE LET state == unmarshalChecklistState(Deref(fs[referenceNumber]).json)
       IN  [ state |-> Ptr(IF IsNil(state.Checked)
                           THEN [ state EXCEPT !.Checked = Ptr(EmptyMap) ]
                           ELSE state),
             err   |-> "" ]

\* SaveState: the directory after os.WriteFile on the file of the state, and
\* the error
SaveState(fs, state, writeFault) ==
  LET data == marshalChecklistState(state)
  IN  IF writeFault = ""
      THEN [ files |-> [ fs EXCEPT ![state.ReferenceNumber] = Ptr(WrittenFile(data)) ],
             err   |-> "" ]
      ELSE IF writeFault = "open"
      THEN [ files |-> fs, err |-> "failed to write checklist file" ]
      ELSE [ files |-> [ fs EXCEPT ![state.ReferenceNumber] =
                           Ptr([ complete |-> FALSE,
                                 json     |-> [ data EXCEPT !.checked = Nil ] ]) ],
             err   |-> "failed to write checklist file" ]

\* ToggleItem that checks the item whatever its value was
ToggleItem_AlwaysChecks(fs, referenceNumber, itemID, readFault, writeFault) ==
  LET loaded == LoadState(fs, referenceNumber, readFault)
  IN  IF loaded.err # ""
      THEN [ files |-> fs, newValue |-> FALSE, err |-> loaded.err ]
      ELSE
        LET state   == Deref(loaded.state)
            toggled == [ state EXCEPT !.Checked = Ptr(MapSet(Deref(@), itemID, TRUE)) ]
            written == SaveState(fs, toggled, writeFault)
        IN  IF written.err # ""
            THEN [ files |-> written.files, newValue |-> FALSE, err |-> written.err ]
            ELSE [ files |-> written.files, newValue |-> TRUE, err |-> "" ]

\* ToggleItem: the directory afterwards and the returned (bool, error)
ToggleItem(fs, referenceNumber, itemID, readFault, writeFault) ==
  LET loaded == LoadState(fs, referenceNumber, readFault)
  IN  IF loaded.err # ""
      THEN [ files |-> fs, newValue |-> FALSE, err |-> loaded.err ]
      ELSE
        LET state    == Deref(loaded.state)
            newValue == ~MapGet(Deref(state.Checked), itemID)
            toggled  == [ state EXCEPT !.Checked = Ptr(MapSet(Deref(@), itemID, newValue)) ]
            written  == SaveState(fs, toggled, writeFault)
        IN  IF written.err # ""
            THEN [ files |-> written.files, newValue |-> FALSE, err |-> written.err ]
            ELSE [ files |-> written.files, newValue |-> newValue, err |-> "" ]

\* the states handed to SaveState directly: no map, an empty map, and a map
\* that checks one item and unchecks another
SavedStates ==
  { [ ReferenceNumber |-> r, Checked |-> c ] :
      r \in Refs,
      c \in { Nil, Ptr(EmptyMap),
              Ptr([ id \in { "finance_sorted", "paint_check" } |-> id = "finance_sorted" ]) } }

----------------------------------------------------------------------------
(* internal/config: token storage *)

\* json.Marshal / json.Unmarshal of a TeslaTokens
marshalTeslaTokens(t) ==
  [ access_token  |-> t.AccessToken,
    refresh_token |-> t.RefreshToken,
    expires_in    |-> t.ExpiresIn,
    scope         |-> t.Scope,
    token_type    |-> t.TokenType,
    expires_at    |-> t.ExpiresAt ]

unmarshalTeslaTokens(j) ==
  [ AccessToken  |-> j.access_token,
    RefreshToken |-> j.refresh_token,
    ExpiresIn    |-> j.expires_in,
    Scope        |-> j.scope,
    TokenType    |-> j.token_type,
    ExpiresAt    |-> j.expires_at ]

\* the 32 bytes rand.Read produces for a new key file
GeneratedKey == "key"

\* the Config and the storage it works on right after New(): the directory
\* holds neither key nor tokens file and the keyring holds no entry
NewConfig(keyringAvailable) ==
  [ keyringAvailable |-> keyringAvailable,
    keyring          |-> Nil,
    tokensFile       |-> Nil,
    keyFile          |-> Nil ]

\* getOrCreateKey: the key of the key file, which is created when missing
getOrCreateKey(c) ==
  IF ~IsNil(c.keyFile)
  THEN [ c |-> c, key |-> Deref(c.keyFile) ]
  ELSE [ c |-> [ c EXCEPT !.keyFile = Ptr(GeneratedKey) ], key |-> GeneratedKey ]

\* encrypt: AES-GCM under the key of the key file
encrypt(c, plaintext) ==
  LET k == getOrCreateKey(c)
  IN  [ c |-> k.c, ciphertext |-> [ sealedWith |-> k.key, plaintext |-> plaintext ] ]

\* decrypt: gcm.Open fails unless the key is the one the data was sealed with
decrypt(c, ciphertext) ==
  LET k == getOrCreateKey(c)
  IN  IF ciphertext.sealedWith # k.key
      THEN [ c |-> k.c, plaintext |-> Nil, err |-> "failed to decrypt" ]
      ELSE [ c |-> k.c, plaintext |-> Ptr(ciphertext.plaintext), err |-> "" ]

\* base64.StdEncoding
EncodeToString(bytes) == [ base64 |-> bytes ]

DecodeString(str) == str.base64

\* saveTokensToKeyring: keyring.Set of the JSON; setFault is the error of the
\* keyring ("" when it works)
saveTokensToKeyring(c, tokens, setFault) ==
  IF setFault # ""
  THEN [ c |-> c, err |-> "failed to save to keyring" ]
  ELSE [ c |-> [ c EXCEPT !.keyring = Ptr(marshalTeslaTokens(tokens)) ], err |-> "" ]

\* loadTokensFromKeyring: keyring.Get fails with ErrNotFound without an entry
loadTokensFromKeyring(c) ==
  IF IsNil(c.keyring)
  THEN [ tokens |-> Nil, err |-> "secret not found in keyring" ]
  ELSE [ tokens |-> Ptr(unmarshalTeslaTokens(Deref(c.keyring))), err |-> "" ]

\* deleteTokensFromKeyring: keyring.Delete fails with ErrNotFound without an
\* entry
deleteTokensFromKeyring(c) ==
  IF IsNil(c.keyring)
  THEN [ c |-> c, err |-> "secret not found in keyring" ]
  ELSE [ c |-> [ c EXCEPT !.keyring = Nil ], err |-> "" ]

saveTokensToFile(c, tokens) ==
  LET encrypted == encrypt(c, marshalTeslaTokens(tokens))
  IN  [ c   |-> [ encrypted.c EXCEPT
                    !.tokensFile = Ptr(EncodeToString(encrypted.ciphertext)) ],
        err |-> "" ]

loadTokensFromFile(c) ==
  IF IsNil(c.tokensFile)
  THEN [ c |-> c, tokens |-> Nil, err |-> "" ]
  ELSE LET decrypted == decrypt(c, DecodeString(Deref(c.tokensFile)))
       IN  IF decrypted.err # ""
           THEN [ c |-> decrypted.c, tokens |-> Nil, err |-> "failed to decrypt tokens" ]
           ELSE [ c      |-> decrypted.c,
                  tokens |-> Ptr(unmarshalTeslaTokens(Deref(decrypted.plaintext))),
                  err    |-> "" ]

\* deleteTokensFromFile: os.Remove, a missing file is not an error
deleteTokensFromFile(c) == [ c |-> [ c EXCEPT !.tokensFile = Nil ], err |-> "" ]

\* SaveTokens at the instant now: the storage afterwards, the tokens object of
\* the caller (its ExpiresAt may have been set) and the error
SaveTokens(c, tokens, now, setFault) ==
  LET stamped == IF tokens.ExpiresAt = 0 /\ tokens.ExpiresIn > 0
                 THEN [ tokens EXCEPT !.ExpiresAt = now + tokens.ExpiresIn ]
                 ELSE tokens
      inRing  == saveTokensToKeyring(c, stamped, setFault)
  IN  IF c.keyringAvailable /\ inRing.err = ""
      THEN [ c |-> deleteTokensFromFile(inRing.c).c, tokens |-> stamped, err |-> "" ]
      ELSE [ c      |-> saveTokensToFile(c, stamped).c,
             tokens |-> stamped,
             err    |-> saveTokensToFile(c, stamped).err ]

\* LoadTokens: the storage afterwards (tokens found in the file move to an
\* available keyring) and the returned (tokens, error)
LoadTokens(c, setFault) ==
  LET fromRing == loadTokensFromKeyring(c)
      fromFile == loadTokensFromFile(c)
      migrated == saveTokensToKeyring(fromFile.c, Deref(fromFile.tokens), setFault)
  IN  IF c.keyringAvailable /\ fromRing.err = "" /\ ~IsNil(fromRing.tokens)
      THEN [ c |-> c, tokens |-> fromRing.tokens, err |-> "" ]
      ELSE IF fromFile.err # ""
      THEN [ c |-> fromFile.c, tokens |-> Nil, err |-> fromFile.err ]
      ELSE IF ~IsNil(fromFile.tokens) /\ c.keyringAvailable /\ migrated.err = ""
      THEN [ c |-> deleteTokensFromFile(migrated.c).c, tokens |-> fromFile.tokens, err |-> "" ]
      ELSE [ c |-> fromFile.c, tokens |-> fromFile.tokens, err |-> "" ]

\* DeleteTokens that leaves the keyring entry
DeleteTokens_FileOnly(c) ==
  [ c |-> deleteTokensFromFile(c).c, err |-> deleteTokensFromFile(c).err ]

\* DeleteTokens: the storage afterwards and the last error met
DeleteTokens(c) ==
  LET ring == IF c.keyringAvailable THEN deleteTokensFromKeyring(c)
              ELSE [ c |-> c, err |-> "" ]
      file == deleteTokensFromFile(ring.c)
  IN  [ c |-> file.c, err |-> IF file.err # "" THEN file.err ELSE ring.err ]

\* HasTokens: a keyring entry that loads, or a tokens file that exists
HasTokens(c) ==
  \/ c.keyringAvailable /\ loadTokensFromKeyring(c).err = ""
  \/ ~IsNil(c.tokensFile)

\* the instants time.Now() returns in SaveTokens
Instants == { 1000, 2000 }

\* the tokens handed to SaveTokens: with and without a refresh token, with
\* and without a lifetime, with and without an expiry time already set
TokenInputs ==
  { [ AccessToken |-> access, RefreshToken |-> refresh, ExpiresIn |-> expiresIn,
      Scope |-> "openid email", TokenType |-> "Bearer", ExpiresAt |-> expiresAt ] :
      access \in { "access123", "access789" },
      refresh \in { "refresh456", "" },
      expiresIn \in { 0, 3600 },
      expiresAt \in { 0, 4000 } }

----------------------------------------------------------------------------
(* internal/tui: the Bubble Tea model. Update and the key handlers are      *)
(* functions from the model and a message to the model and the commands    *)
(* Bubble Tea runs next; e is what Update reaches through the model's      *)
(* pointers: the Config, the API client and the checklist directory.       *)

\* the IDs of DeliveryChecklist in order
DeliveryChecklist ==
  << "finance_sorted", "insured", "home_charger", "docs_reviewed", "tradein_ready",
     "pickup_route" >>

TabDetails == 0
TabTasks == 1
TabChecklist == 2
TabHistory == 3
TabJSON == 4

\* a tea.Cmd: the function Bubble Tea runs in a goroutine of its own
Cmd(name) == [ name |-> name, referenceNumber |-> "", itemID |-> "", text |-> "" ]

\* the URL a browser shows after the Tesla login, as pasted by the user
CallbackURL == "https://auth.tesla.com/void/callback?code=abc"

\* extractCodeFromURL on the texts the model enters: the callback URL or text
\* without a code parameter
extractCodeFromURL(callbackURL) ==
  IF callbackURL = CallbackURL
  THEN [ code |-> "abc", err |-> "" ]
  ELSE [ code |-> "", err |-> "could not find authorization code in URL" ]

\* tui.New
NewModel ==
  [ view             |-> "ViewLogin",
    previousView     |-> "ViewLogin",
    tokens           |-> Nil,
    orders           |-> << >>,
    diffs            |-> << >>,
    selectedOrder    |-> 0,
    selectedTab      |-> TabDetails,
    err              |-> "",
    loading          |-> FALSE,
    authenticating   |-> FALSE,
    authSession      |-> Nil,
    demoMode         |-> FALSE,
    confirmingLogout |-> FALSE,
    checklistState   |-> Nil,
    checklistCursor  |-> 0,
    toastMessage     |-> "",
    toastIsError     |-> FALSE,
    autoRefresh      |-> FALSE,
    lastRefresh      |-> 0,
    textInput        |-> "" ]

\* Model.WithAutoRefresh
WithAutoRefresh(m) == [ m EXCEPT !.autoRefresh = TRUE ]

\* what a handler returns: the model, the commands and what it changed
\* through the model's pointers
Return(m, cmds, e) == [ m |-> m, cmds |-> cmds, e |-> e ]

\* m.orders[m.selectedOrder]
SelectedOrder(m) == m.orders[m.selectedOrder + 1]

\* the answer to a copy key: the VIN goes to the clipboard when there is one
copyVIN(m, e) ==
  LET vin == GetVIN(SelectedOrder(m).Order)
  IN  IF vin # "" /\ vin # "N/A"
      THEN Return(m, << [ Cmd("copyToClipboard") EXCEPT !.text = vin ] >>, e)
      ELSE Return([ m EXCEPT !.toastMessage = "No VIN available to copy",
                             !.toastIsError = TRUE ],
                  << Cmd("clearToastAfterDelay") >>, e)

\* handleHelpKeys that always leaves the help for the orders list
handleHelpKeys_ToOrders(m, key, e) ==
  IF key \in { "esc", "?", "enter", "backspace" }
  THEN Return([ m EXCEPT !.view = "ViewOrders" ], << >>, e)
  ELSE Return(m, << >>, e)

handleHelpKeys(m, key, e) ==
  IF key \in { "esc", "?", "enter", "backspace" }
  THEN Return([ m EXCEPT !.view = m.previousView ], << >>, e)
  ELSE Return(m, << >>, e)

submitCallbackURL(m, e) ==
  IF m.textInput = ""
  THEN Return([ m EXCEPT !.err = "please paste the callback URL" ], << >>, e)
  ELSE IF extractCodeFromURL(m.textInput).err # ""
  THEN Return([ m EXCEPT !.err = extractCodeFromURL(m.textInput).err ], << >>, e)
  ELSE Return([ m EXCEPT !.err = "" ],
              << [ Cmd("ExchangeCode") EXCEPT !.text = extractCodeFromURL(m.textInput).code ] >>,
              e)

handleLoginKeys(m, key, e) ==
  IF ~IsNil(m.authSession)
  THEN CASE key = "esc" ->
              Return([ m EXCEPT !.authSession = Nil, !.authenticating = FALSE,
                                !.textInput = "" ], << >>, e)
         [] key = "enter" -> submitCallbackURL(m, e)
         [] OTHER -> Return([ m EXCEPT !.textInput = @ \o key ], << >>, e)
  ELSE IF m.authenticating
  THEN Return(m, << >>, e)
  ELSE IF key = "enter"
  THEN Return([ m EXCEPT !.authenticating = TRUE, !.err = "" ],
              << Cmd("spinner.Tick"), Cmd("openBrowserForAuth") >>, e)
  ELSE Return(m, << >>, e)

handleOrdersKeys(m, key, e) ==
  IF m.loading
  THEN Return(m, << >>, e)
  ELSE CASE key \in { "up", "k" } ->
              Return(IF m.selectedOrder > 0
                     THEN [ m EXCEPT !.selectedOrder = @ - 1 ] ELSE m, << >>, e)
         [] key \in { "down", "j" } ->
              Return(IF m.selectedOrder < Len(m.orders) - 1
                     THEN [ m EXCEPT !.selectedOrder = @ + 1 ] ELSE m, << >>, e)
         [] key = "enter" ->
              Return(IF Len(m.orders) > 0
                     THEN [ m EXCEPT !.view = "ViewDetail", !.selectedTab = TabDetails ]
                     ELSE m, << >>, e)
         [] key = "r" ->
              Return([ m EXCEPT !.loading = TRUE ],
                     << Cmd("spinner.Tick"), Cmd("loadOrders") >>, e)
         [] key = "L" -> Return([ m EXCEPT !.confirmingLogout = TRUE ], << >>, e)
         [] key \in { "y", "c" } ->
              IF Len(m.orders) > 0 /\ m.selectedOrder < Len(m.orders)
              THEN copyVIN(m, e)
              ELSE Return(m, << >>, e)
         [] OTHER -> Return(m, << >>, e)

\* onTabSwitch: entering the checklist tab loads the checklist of the order
onTabSwitch(m, e) ==
  IF m.selectedTab = TabChecklist /\ m.selectedOrder < Len(m.orders)
  THEN LET loaded == LoadState(e.checklists, SelectedOrder(m).Order.ReferenceNumber, "")
       IN  [ m EXCEPT !.checklistState = IF loaded.err = "" THEN loaded.state ELSE @,
                      !.checklistCursor = 0 ]
  ELSE m

getChecklistItemAtCursor(m) ==
  IF m.checklistCursor < Len(DeliveryChecklist)
  THEN DeliveryChecklist[m.checklistCursor + 1]
  ELSE ""

handleDetailKeys(m, key, e) ==
  IF m.selectedTab = TabChecklist /\ key \in { "up", "k" }
  THEN Return(IF m.checklistCursor > 0
              THEN [ m EXCEPT !.checklistCursor = @ - 1 ] ELSE m, << >>, e)
  ELSE IF m.selectedTab = TabChecklist /\ key \in { "down", "j" }
  THEN Return(IF m.checklistCursor < Len(DeliveryChecklist) - 1
              THEN [ m EXCEPT !.checklistCursor = @ + 1 ] ELSE m, << >>, e)
  ELSE IF m.selectedTab = TabChecklist /\ key \in { "enter", " " }
  THEN IF m.selectedOrder < Len(m.orders) /\ getChecklistItemAtCursor(m) # ""
       THEN Return(m, << [ Cmd("ToggleItem") EXCEPT
                             !.referenceNumber = SelectedOrder(m).Order.ReferenceNumber,
                             !.itemID = getChecklistItemAtCursor(m) ] >>, e)
       ELSE Return(m, << >>, e)
  ELSE CASE key \in { "esc", "backspace" } ->
              Return([ m EXCEPT !.view = "ViewOrders" ], << >>, e)
         [] key = "tab" ->
              Return(onTabSwitch([ m EXCEPT !.selectedTab = (@ + 1) % 5 ], e), << >>, e)
         [] key = "shift+tab" ->
              Return(onTabSwitch([ m EXCEPT !.selectedTab =
                                     IF @ = 0 THEN TabJSON ELSE @ - 1 ], e), << >>, e)
         [] key = "r" ->
              Return([ m EXCEPT !.loading = TRUE ],
                     << Cmd("spinner.Tick"), Cmd("loadOrders") >>, e)
         [] key \in { "y", "c" } /\ m.selectedOrder < Len(m.orders) ->
              IF m.selectedTab = TabJSON
              THEN Return(m, << Cmd("copyJSON") >>, e)
              ELSE copyVIN(m, e)
         [] OTHER -> Return(m, << Cmd("viewport.Update") >>, e)

\* handleKeyPress whose confirmation answers to 'y' and 'n' alone and hands
\* every other key on
handleKeyPress_ConfirmationPassesKeys(m, key, e) ==
  IF m.confirmingLogout /\ key \in { "y", "Y" }
  THEN Return([ m EXCEPT !.confirmingLogout = FALSE ], << Cmd("logout") >>, e)
  ELSE IF m.confirmingLogout /\ key \in { "n", "N", "esc" }
  THEN Return([ m EXCEPT !.confirmingLogout = FALSE ], << >>, e)
  ELSE IF key \in { "q", "ctrl+c" }
  THEN Return(m, << Cmd("tea.Quit") >>, e)
  ELSE IF key = "?" /\ m.view = "ViewHelp"
  THEN Return([ m EXCEPT !.view = m.previousView ], << >>, e)
  ELSE IF key = "?" /\ ( m.view # "ViewLogin" \/ ( ~m.authenticating /\ IsNil(m.authSession) ) )
  THEN Return([ m EXCEPT !.previousView = m.view, !.view = "ViewHelp" ], << >>, e)
  ELSE CASE m.view = "ViewLogin"  -> handleLoginKeys(m, key, e)
         [] m.view = "ViewOrders" -> handleOrdersKeys(m, key, e)
         [] m.view = "ViewDetail" -> handleDetailKeys(m, key, e)
         [] m.view = "ViewHelp"   -> handleHelpKeys(m, key, e)
         [] OTHER -> Return(m, << >>, e)

handleKeyPress(m, key, e) ==
  IF m.confirmingLogout
  THEN CASE key \in { "y", "Y" } ->
              Return([ m EXCEPT !.confirmingLogout = FALSE ], << Cmd("logout") >>, e)
         [] key \in { "n", "N", "esc" } ->
              Return([ m EXCEPT !.confirmingLogout = FALSE ], << >>, e)
         [] OTHER -> Return(m, << >>, e)
  ELSE IF key \in { "q", "ctrl+c" }
  THEN Return(m, << Cmd("tea.Quit") >>, e)
  ELSE IF key = "?" /\ m.view = "ViewHelp"
  THEN Return([ m EXCEPT !.view = m.previousView ], << >>, e)
  ELSE IF key = "?" /\ ( m.view # "ViewLogin" \/ ( ~m.authenticating /\ IsNil(m.authSession) ) )
  THEN Return([ m EXCEPT !.previousView = m.view, !.view = "ViewHelp" ], << >>, e)
  ELSE CASE m.view = "ViewLogin"  -> handleLoginKeys(m, key, e)
         [] m.view = "ViewOrders" -> handleOrdersKeys(m, key, e)
         [] m.view = "ViewDetail" -> handleDetailKeys(m, key, e)
         [] m.view = "ViewHelp"   -> handleHelpKeys(m, key, e)
         [] OTHER -> Return(m, << >>, e)

\* handleMouseEvent; the mouse message holds Button, Action, X and Y
handleMouseEvent(m, mouse, e) ==
  IF mouse.Button \in { "MouseButtonWheelUp", "MouseButtonWheelDown" }
  THEN IF m.view = "ViewDetail"
       THEN Return(m, << Cmd("viewport.Update") >>, e)
       ELSE IF m.view = "ViewOrders" /\ Len(m.orders) > 0
       THEN IF mouse.Button = "MouseButtonWheelUp"
            THEN Return(IF m.selectedOrder > 0
                        THEN [ m EXCEPT !.selectedOrder = @ - 1 ] ELSE m, << >>, e)
            ELSE Return(IF m.selectedOrder < Len(m.orders) - 1
                        THEN [ m EXCEPT !.selectedOrder = @ + 1 ] ELSE m, << >>, e)
       ELSE Return(m, << >>, e)
  ELSE IF m.view # "ViewOrders" /\ m.view # "ViewDetail"
  THEN Return(m, << >>, e)
  ELSE IF mouse.Button # "MouseButtonLeft" \/ mouse.Action # "MouseActionRelease"
  THEN Return(m, << >>, e)
  ELSE IF m.view = "ViewOrders"
  THEN LET clickedRow == mouse.Y - 6
       IN  IF clickedRow >= 0 /\ clickedRow < Len(m.orders)
           THEN IF clickedRow = m.selectedOrder
                THEN Return([ m EXCEPT !.view = "ViewDetail", !.selectedTab = TabDetails ],
                            << >>, e)
                ELSE Return([ m EXCEPT !.selectedOrder = clickedRow ], << >>, e)
           ELSE Return(m, << >>, e)
  ELSE LET clickedTab == mouse.X \div 10
       IN  IF mouse.Y = 4 /\ clickedTab >= 0 /\ clickedTab < 4
           THEN Return([ m EXCEPT !.selectedTab = clickedTab ], << >>, e)
           ELSE Return(m, << >>, e)

\* the toast of a refresh that found changeCount orders with changes
RefreshToast(changeCount) ==
  IF changeCount > 0
  THEN "Refreshed - " \o ToString(changeCount) \o " order(s) with changes"
  ELSE "Refreshed - no changes detected"

\* Update on an AuthResultMsg without error, SaveTokens having returned
\* stored: the tokens, stamped by SaveTokens through the pointer, are those
\* of the model and of the client
Authenticated(m, stored, e) ==
  IF stored.err # ""
  THEN Return([ m EXCEPT !.tokens = Ptr(stored.tokens), !.err = stored.err ], << >>,
              [ e EXCEPT !.config = stored.c, !.client.tokens = Ptr(stored.tokens) ])
  ELSE Return([ m EXCEPT !.tokens = Ptr(stored.tokens), !.view = "ViewOrders",
                         !.loading = TRUE ],
              << Cmd("spinner.Tick"), Cmd("loadOrders") >>,
              [ e EXCEPT !.config = stored.c, !.client.tokens = Ptr(stored.tokens) ])

\* an OrdersLoadedMsg case that schedules no tick after a failed load
Update_OrdersLoadedMsg_StopsOnError(m, msg, e) ==
  LET done == [ m EXCEPT !.loading = FALSE, !.lastRefresh = e.now ]
  IN  IF msg.Error # ""
      THEN Return([ done EXCEPT !.err = msg.Error ], << >>, e)
      ELSE Return([ done EXCEPT !.orders = msg.Orders, !.diffs = msg.Diffs,
                                !.err = "",
                                !.toastMessage =
                                   RefreshToast(Cardinality(DOMAIN msg.Diffs)),
                                !.toastIsError = FALSE ],
                  IF m.autoRefresh
                  THEN << Cmd("clearToastAfterDelay"), Cmd("scheduleAutoRefresh") >>
                  ELSE << Cmd("clearToastAfterDelay") >>, e)

\* the OrdersLoadedMsg case of Update
Update_OrdersLoadedMsg(m, msg, e) ==
  LET done == [ m EXCEPT !.loading = FALSE, !.lastRefresh = e.now ]
  IN  IF msg.Error # ""
      THEN Return([ done EXCEPT !.err = msg.Error ],
                  IF m.autoRefresh THEN << Cmd("scheduleAutoRefresh") >> ELSE << >>, e)
      ELSE Return([ done EXCEPT !.orders = msg.Orders, !.diffs = msg.Diffs,
                                !.err = "",
                                !.toastMessage =
                                   RefreshToast(Cardinality(DOMAIN msg.Diffs)),
                                !.toastIsError = FALSE ],
                  IF m.autoRefresh
                  THEN << Cmd("clearToastAfterDelay"), Cmd("scheduleAutoRefresh") >>
                  ELSE << Cmd("clearToastAfterDelay") >>, e)

\* an AutoRefreshTickMsg case that does not look at m.loading
Update_AutoRefreshTickMsg_IgnoresLoading(m, e) ==
  IF m.view = "ViewOrders" /\ ~IsNil(m.tokens)
  THEN Return([ m EXCEPT !.loading = TRUE ],
              << Cmd("spinner.Tick"), Cmd("loadOrders") >>, e)
  ELSE Return(m, IF m.autoRefresh THEN << Cmd("scheduleAutoRefresh") >> ELSE << >>, e)

\* the AutoRefreshTickMsg case of Update
Update_AutoRefreshTickMsg(m, e) ==
  IF m.view = "ViewOrders" /\ ~m.loading /\ ~IsNil(m.tokens)
  THEN Return([ m EXCEPT !.loading = TRUE ],
              << Cmd("spinner.Tick"), Cmd("loadOrders") >>, e)
  ELSE Return(m, IF m.autoRefresh THEN << Cmd("scheduleAutoRefresh") >> ELSE << >>, e)

\* a LogoutMsg case that leaves the view as it is
Update_LogoutMsg_KeepsView(m, e) ==
  Return([ m EXCEPT !.tokens = Nil, !.orders = << >>, !.diffs = << >>,
                    !.checklistState = Nil, !.err = "" ],
         << >>, e)

\* the LogoutMsg case of Update
Update_LogoutMsg(m, e) ==
  Return([ m EXCEPT !.tokens = Nil, !.orders = << >>, !.diffs = << >>,
                    !.checklistState = Nil, !.view = "ViewLogin", !.err = "" ],
         << >>, e)

\* Update: msg is a record with the message type and the fields of that type
Update(m, msg, e) ==
  CASE msg.type = "KeyMsg" -> handleKeyPress(m, msg.key, e)
    [] msg.type = "MouseMsg" -> handleMouseEvent(m, msg.mouse, e)
    [] msg.type = "spinner.TickMsg" -> Return(m, << Cmd("spinner.Tick") >>, e)
    [] msg.type = "BrowserOpenedMsg" ->
         IF msg.Error # ""
         THEN Return([ m EXCEPT !.err = msg.Error, !.authenticating = FALSE ], << >>, e)
         ELSE Return([ m EXCEPT !.authSession = msg.Session ], << Cmd("textinput.Blink") >>, e)
    [] msg.type = "AuthResultMsg" ->
         IF msg.Error # ""
         THEN Return([ m EXCEPT !.authenticating = FALSE, !.authSession = Nil,
                                !.textInput = "", !.err = msg.Error ], << >>, e)
         ELSE Authenticated([ m EXCEPT !.authenticating = FALSE, !.authSession = Nil,
                                       !.textInput = "" ],
                            SaveTokens(e.config, Deref(msg.Tokens), e.now, ""), e)
    [] msg.type = "OrdersLoadedMsg" -> Update_OrdersLoadedMsg(m, msg, e)
    [] msg.type = "ToastMsg" ->
         Return([ m EXCEPT !.toastMessage = msg.Message, !.toastIsError = msg.IsError ],
                << Cmd("clearToastAfterDelay") >>, e)
    [] msg.type = "ClearToastMsg" ->
         Return([ m EXCEPT !.toastMessage = "", !.toastIsError = FALSE ], << >>, e)
    [] msg.type = "DemoLoadedMsg" ->
         Return([ m EXCEPT !.loading = FALSE, !.orders = msg.Orders, !.diffs = msg.Diffs,
                           !.view = "ViewOrders", !.err = "" ], << >>, e)
    [] msg.type = "ErrMsg" ->
         Return([ m EXCEPT !.err = msg.Error, !.loading = FALSE ], << >>, e)
    [] msg.type = "AutoRefreshTickMsg" -> Update_AutoRefreshTickMsg(m, e)
    [] msg.type = "LogoutMsg" -> Update_LogoutMsg(m, e)
    [] msg.type = "ChecklistToggleMsg" ->
         IF msg.Error # ""
         THEN Return([ m EXCEPT !.toastMessage = "Failed to save checklist",
                                !.toastIsError = TRUE ],
                     << Cmd("clearToastAfterDelay") >>, e)
         ELSE IF m.selectedOrder < Len(m.orders)
         THEN LET loaded == LoadState(e.checklists,
                                      SelectedOrder(m).Order.ReferenceNumber, "")
              IN  Return([ m EXCEPT !.checklistState =
                                      IF loaded.err = "" THEN loaded.state ELSE @ ],
                         << >>, e)
         ELSE Return(m, << >>, e)
    [] msg.type = "ClipboardMsg" ->
         Return([ m EXCEPT !.toastMessage =
                             IF msg.Success
                             THEN "Copied: " \o ( IF Len(msg.Text) > 40 THEN "JSON"
                                                  ELSE msg.Text )
                             ELSE "Failed to copy to clipboard",
                           !.toastIsError = ~msg.Success ],
                << Cmd("clearToastAfterDelay") >>, e)
    [] OTHER -> Return(m, << >>, e)

\* GetAllOrderData: the orders of the account as the API holds them at the
\* time of the call, or the error of the request
GetAllOrderData(client, remote, apiFault) ==
  IF IsNil(client.tokens)
  THEN [ orders |-> << >>, err |-> "failed to get orders: not authenticated" ]
  ELSE IF apiFault # ""
  THEN [ orders |-> << >>, err |-> "failed to get orders: " \o apiFault ]
  ELSE [ orders |-> remote, err |-> "" ]

\* a loop of loadOrders that also records an order without changes
RecordDiffs_RecordsUnchanged(diffs, referenceNumber, orderDiffs, err) ==
  IF err # "" THEN diffs
  ELSE [ r \in DOMAIN diffs \cup { referenceNumber } |->
           IF r = referenceNumber THEN orderDiffs ELSE diffs[r] ]

\* the entry loadOrders makes in its diffs map for one order
RecordDiffs(diffs, referenceNumber, orderDiffs, err) ==
  IF err # "" THEN diffs
  ELSE IF Len(orderDiffs) > 0
  THEN [ r \in DOMAIN diffs \cup { referenceNumber } |->
           IF r = referenceNumber THEN orderDiffs ELSE diffs[r] ]
  ELSE diffs

\* the tokens Tesla issues: an hour of lifetime, no expiry time set yet
IssuedTokens ==
  [ AccessToken |-> "access789", RefreshToken |-> "refresh456", ExpiresIn |-> 3600,
    Scope |-> "openid email", TokenType |-> "Bearer", ExpiresAt |-> 0 ]

\* TeslaTokens.IsExpired at the instant now
IsExpired(t, now) == now > t.ExpiresAt

\* checkSavedTokens once Auth.RefreshTokens has returned new tokens and
\* SaveTokens has returned stored
checkSavedTokens_Refreshed(stored) ==
  IF stored.err # ""
  THEN [ msg |-> Ptr([ type |-> "AuthResultMsg", Tokens |-> Nil,
                       Error |-> "failed to save refreshed tokens" ]),
         c   |-> stored.c ]
  ELSE [ msg |-> Ptr([ type |-> "AuthResultMsg", Tokens |-> Ptr(stored.tokens),
                       Error |-> "" ]),
         c   |-> stored.c ]

\* checkSavedTokens once LoadTokens has returned loaded
checkSavedTokens_Loaded(loaded, now, refreshed) ==
  IF loaded.err # ""
  THEN [ msg |-> Ptr([ type |-> "ErrMsg", Error |-> loaded.err ]), c |-> loaded.c ]
  ELSE IF IsNil(loaded.tokens)
  THEN [ msg |-> Nil, c |-> loaded.c ]
  ELSE IF ~IsExpired(Deref(loaded.tokens), now)
  THEN [ msg |-> Ptr([ type |-> "AuthResultMsg", Tokens |-> loaded.tokens, Error |-> "" ]),
         c   |-> loaded.c ]
  ELSE IF Deref(loaded.tokens).RefreshToken # ""
  THEN IF refreshed.err = ""
       THEN checkSavedTokens_Refreshed(SaveTokens(loaded.c, refreshed.tokens, now, ""))
       ELSE [ msg |-> Ptr([ type |-> "AuthResultMsg", Tokens |-> Nil,
                            Error |-> "session expired, please sign in again ("
                                      \o refreshed.err \o ")" ]),
              c   |-> loaded.c ]
  ELSE [ msg |-> Ptr([ type |-> "AuthResultMsg", Tokens |-> Nil,
                       Error |-> "session expired, please sign in again" ]),
         c   |-> loaded.c ]

\* checkSavedTokens at the instant now: the message it returns (nil for none)
\* and the Config afterwards; refreshed is the outcome of Auth.RefreshTokens
checkSavedTokens(c, now, refreshed) ==
  checkSavedTokens_Loaded(LoadTokens(c, ""), now, refreshed)

\* a goroutine Bubble Tea started for a command: the command, the place the
\* goroutine has reached and, in loadOrders, its locals: the fetched orders,
\* the index of the order in the loop, the bytes of the history file
\* LoadHistory read for that order, the diffs map, the error to return, and
\* the (diffs, error) each AddSnapshot returned so far
Goroutine(cmd) ==
  [ cmd |-> cmd, pc |-> "start", orders |-> << >>, i |-> 0, seen |-> Nil,
    diffs |-> << >>, err |-> "", results |-> << >> ]

\* loadOrders up to the return of GetAllOrderData
loadOrders_GetAllOrderData(g, c, remote, apiFault) ==
  LET fetched == GetAllOrderData(c, remote, apiFault)
  IN  IF fetched.err # ""
      THEN [ g EXCEPT !.pc = "return", !.err = fetched.err ]
      ELSE [ g EXCEPT !.orders = fetched.orders, !.i = 1,
                      !.pc = IF Len(fetched.orders) = 0 THEN "return" ELSE "AddSnapshot" ]

\* the order the loop of loadOrders is at
CurrentOrder(g) == g.orders[g.i]

\* the end of one iteration of the loop of loadOrders, AddSnapshot having
\* returned res
loadOrders_Continue(g, res) ==
  [ g EXCEPT !.diffs   = RecordDiffs(@, CurrentOrder(g).Order.ReferenceNumber,
                                     res.diffs, res.err),
             !.results = Append(@, [ referenceNumber |-> CurrentOrder(g).Order.ReferenceNumber,
                                     diffs |-> res.diffs, err |-> res.err ]),
             !.seen    = Nil,
             !.i       = @ + 1,
             !.pc      = IF g.i + 1 > Len(g.orders) THEN "return" ELSE "AddSnapshot" ]

\* the directory as the goroutine saw it when its LoadHistory read the file
\* of the current order
SeenFiles(g, fs) == [ fs EXCEPT ![CurrentOrder(g).Order.ReferenceNumber] = g.seen ]

\* AddSnapshot of the current order up to the call of os.WriteFile: LoadHistory
\* reads the file and the snapshot is compared; the goroutine and the directory
loadOrders_AddSnapshot(g, fs, readFault) ==
  IF AddSnapshot(fs, CurrentOrder(g), readFault, "").saved
  THEN [ g     |-> [ g EXCEPT !.seen = fs[CurrentOrder(g).Order.ReferenceNumber],
                              !.pc = "os.WriteFile" ],
         files |-> fs ]
  ELSE [ g     |-> loadOrders_Continue(g, AddSnapshot(fs, CurrentOrder(g), readFault, "")),
         files |-> fs ]

\* os.WriteFile opens the file with O_TRUNC: the file is empty until the
\* data is written, or the open fails and AddSnapshot returns the error
loadOrders_OpenFile(g, fs, writeFault) ==
  IF writeFault = "open"
  THEN [ g     |-> loadOrders_Continue(g, AddSnapshot(SeenFiles(g, fs), CurrentOrder(g),
                                                      "", "open")),
         files |-> fs ]
  ELSE [ g     |-> [ g EXCEPT !.pc = "write" ],
         files |-> [ fs EXCEPT ![CurrentOrder(g).Order.ReferenceNumber] =
                       AddSnapshot(SeenFiles(g, fs), CurrentOrder(g), "", "write")
                         .files[CurrentOrder(g).Order.ReferenceNumber] ] ]

\* os.WriteFile writes the data and closes the file, or fails doing so;
\* AddSnapshot returns
loadOrders_Write(g, fs, writeFault) ==
  CHOOSE out \in
    { [ g     |-> loadOrders_Continue(g, res),
        files |-> [ fs EXCEPT ![CurrentOrder(g).Order.ReferenceNumber] =
                      res.files[CurrentOrder(g).Order.ReferenceNumber] ] ] :
      res \in { AddSnapshot(SeenFiles(g, fs), CurrentOrder(g), "", writeFault) } } : TRUE

\* loadOrders whose loop stops at the first AddSnapshot that fails
loadOrders_Return_StopsAtFailure(g) ==
  IF g.err # "" \/ \E k \in DOMAIN g.results : g.results[k].err # ""
  THEN [ type |-> "OrdersLoadedMsg", Orders |-> << >>, Diffs |-> << >>,
         Error |-> IF g.err # "" THEN g.err ELSE "failed to store history" ]
  ELSE [ type |-> "OrdersLoadedMsg", Orders |-> g.orders, Diffs |-> g.diffs, Error |-> "" ]

\* the message loadOrders returns
loadOrders_Return(g) ==
  IF g.err # ""
  THEN [ type |-> "OrdersLoadedMsg", Orders |-> << >>, Diffs |-> << >>, Error |-> g.err ]
  ELSE [ type |-> "OrdersLoadedMsg", Orders |-> g.orders, Diffs |-> g.diffs, Error |-> "" ]

\* the history tab name renderTabs puts in the tab bar, and the error of its
\* LoadHistory, which renderTabs drops
renderTabs(mdl, fs) ==
  LET ref    == SelectedOrder(mdl).Order.ReferenceNumber
      loaded == LoadHistory(fs, ref, "")
      historyCount == IF loaded.err = "" THEN Len(Deref(loaded.history).Snapshots) ELSE 0
  IN  IF mdl.selectedOrder < Len(mdl.orders)
      THEN [ referenceNumber |-> ref,
             history |-> IF historyCount > 0
                         THEN "History (" \o ToString(historyCount) \o ")"
                         ELSE "History",
             err     |-> loaded.err ]
      ELSE [ referenceNumber |-> "", history |-> "History", err |-> "" ]

\* the next step of the loop of loadOrders on a file system that does not
\* fail: the goroutine and the directory afterwards
loadOrders_Step(g, fs) ==
  IF g.pc = "AddSnapshot" THEN loadOrders_AddSnapshot(g, fs, "")
  ELSE IF g.pc = "os.WriteFile" THEN loadOrders_OpenFile(g, fs, "")
  ELSE loadOrders_Write(g, fs, "")

\* the loop of loadOrders run to its end from st, the goroutine and the
\* directory, with no other goroutine in between
RECURSIVE loadOrders_Loop(_)
loadOrders_Loop(st) ==
  IF st.g.pc = "return" THEN st
  ELSE CHOOSE out \in { loadOrders_Loop(nx) : nx \in { loadOrders_Step(st.g, st.files) } } :
         TRUE

\* loadOrders run as one step: the message it returns and the directory
loadOrders(g, c, remote, fs, apiFault) ==
  CHOOSE out \in
    { [ msg |-> loadOrders_Return(st.g), files |-> st.files ] :
      st \in { loadOrders_Loop(fetched) :
                 fetched \in { [ g     |-> loadOrders_GetAllOrderData(g, c, remote, apiFault),
                                 files |-> fs ] } } } : TRUE

\* logout: the message it returns and the Config; deleteFault is the error of
\* the removal of the tokens ("" is none)
logout(c, deleteFault) ==
  IF deleteFault # ""
  THEN [ msg |-> [ type |-> "ErrMsg", Error |-> deleteFault ], c |-> c ]
  ELSE [ msg |-> [ type |-> "LogoutMsg" ], c |-> DeleteTokens(c).c ]

\* openBrowserForAuth: the message it returns; fault is the error of
\* CreateAuthSession or of browser.OpenURL
openBrowserForAuth(fault) ==
  IF fault # ""
  THEN [ type |-> "BrowserOpenedMsg", Session |-> Nil, Error |-> fault ]
  ELSE [ type |-> "BrowserOpenedMsg", Session |-> Ptr("session"), Error |-> "" ]

\* the command submitCallbackURL returns: the message of ExchangeCode
ExchangeCode(fault) ==
  IF fault # ""
  THEN [ type |-> "AuthResultMsg", Tokens |-> Nil, Error |-> fault ]
  ELSE [ type |-> "AuthResultMsg", Tokens |-> Ptr(IssuedTokens), Error |-> "" ]

\* the access token of the n-th token set the token endpoint issues on refresh
RefreshedAccessToken(n) ==
  "refreshed" \o << "1", "2", "3", "4", "5", "6", "7", "8", "9" >>[n]

\* Auth.RefreshTokens at the instant now: the n-th token set of the endpoint,
\* whose response carries no refresh token, so the one handed in is kept;
\* fault is the error of the request ("" is none)
RefreshTokens(refreshToken, n, now, fault) ==
  IF fault # ""
  THEN [ tokens |-> Nil, err |-> fault ]
  ELSE [ tokens |-> Ptr([ AccessToken |-> RefreshedAccessToken(n),
                          RefreshToken |-> refreshToken, ExpiresIn |-> 3600,
                          Scope |-> "openid email", TokenType |-> "Bearer",
                          ExpiresAt |-> now + 3600 ]),
         err    |-> "" ]

----------------------------------------------------------------------------
(* The orders submitted to the history store *)

DemoVIN == "5YJ3E1EA1LF123456"

\* a freshly booked order: no VIN, no task data
OrderA(r) == ZeroCombinedOrder(r, "BOOKED")

\* the same display values as OrderA held in another structure: an empty VIN
\* string, task objects without data, and the raw JSON kept for display
OrderA2(r) ==
  [ OrderA(r) EXCEPT
      !.Order.VIN = Ptr(""),
      !.Order.ModelCode = "my",
      !.Details.Tasks.Scheduling = Ptr(ZeroSchedulingTask),
      !.Details.Tasks.Registration = Ptr([ OrderDetails |-> Nil ]),
      !.Details.Tasks.FinalPayment = Ptr([ Data |-> Nil ]),
      !.Details.Tasks.Raw = Ptr("tasks"),
      !.Details.RawJSON = Ptr("raw") ]

\* the order once delivered: status, VIN and delivery window have changed
OrderB(r) ==
  [ OrderA(r) EXCEPT
      !.Order.OrderStatus = "DELIVERED",
      !.Order.VIN = Ptr(DemoVIN),
      !.Order.ModelCode = "my",
      !.Details.Tasks.Scheduling =
          Ptr([ ZeroSchedulingTask EXCEPT !.DeliveryWindowDisplay = "Jan-Feb" ]),
      !.Details.Tasks.Raw = Ptr("tasks"),
      !.Details.RawJSON = Ptr("raw") ]

\* orders submitted at any time
Orders(r) == { OrderA(r), OrderB(r) }

\* orders submitted while few snapshots are stored
VariantOrders(r) == { OrderA2(r) }

\* the i-th order of a history handed to SaveHistory: all alike (stride 0) or
\* cycling through A, B, A2 (stride 1)
SeedOrder(r, stride, i) ==
  LET k == (i * stride) % 3
  IN  IF k = 0 THEN OrderA(r) ELSE IF k = 1 THEN OrderB(r) ELSE OrderA2(r)

\* a history of n snapshots taken before the run, the newest at instant 0
SeedHistory(r, n, stride) ==
  [ ReferenceNumber |-> r,
    Snapshots       |-> [ i \in 1..n |->
                            [ Timestamp |-> i - n,
                              Data      |-> SeedOrder(r, stride, i) ] ] ]

\* the reference numbers SaveHistory is called on directly
SeedRefs == { "RN1" }

SeedHistories ==
  { SeedHistory(r, n, stride) : r \in SeedRefs, n \in 0..MaxSaveLen, stride \in {0, 1} }

----------------------------------------------------------------------------
(* The orders handed to the diff engine *)

Statuses == { "BOOKED", "DELIVERED" }

\* values an edit gives a string field
FieldValues == { "", "a" }

\* every sub-object present, every string empty
AllEmpty ==
  [ ZeroCombinedOrder("RN1", "BOOKED") EXCEPT
      !.Order.VIN = Ptr(""),
      !.Order.MktOptions = Ptr(""),
      !.Details.Tasks.Scheduling = Ptr(ZeroSchedulingTask),
      !.Details.Tasks.Registration = Ptr([ OrderDetails |-> Ptr(ZeroRegistrationOrderDetails) ]),
      !.Details.Tasks.FinalPayment = Ptr([ Data |-> Ptr(ZeroFinalPaymentData) ]),
      !.Details.Tasks.DeliveryDetails = Ptr([ RegData |-> Ptr(ZeroDeliveryDetailsRegData) ]) ]

\* every sub-object present, every string v
Full(status, vin, v) ==
  [ ZeroCombinedOrder("RN1", status) EXCEPT
      !.Order.VIN = Ptr(vin),
      !.Order.MktOptions = Ptr(v),
      !.Details.Tasks.Scheduling =
          Ptr([ DeliveryWindowDisplay |-> v, ApptDateTimeAddressStr |-> v,
                DeliveryType |-> v, DeliveryAddressTitle |-> v ]),
      !.Details.Tasks.Registration =
          Ptr([ OrderDetails |->
                  Ptr([ VehicleRoutingLocation |-> v, VehicleOdometer |-> v,
                        VehicleOdometerType |-> v, ReservationDate |-> v,
                        OrderBookedDate |-> v ]) ]),
      !.Details.Tasks.FinalPayment = Ptr([ Data |-> Ptr([ ETAToDeliveryCenter |-> v ]) ]),
      !.Details.Tasks.DeliveryDetails = Ptr([ RegData |-> Ptr([ ReggieLicensePlate |-> v ]) ]) ]

OtherVIN == "7SAYGDEE9PF123456"

BaseOrders ==
  { ZeroCombinedOrder("RN1", "BOOKED"), AllEmpty,
    Full("BOOKED", DemoVIN, "a"), Full("DELIVERED", OtherVIN, "b") }

\* the orders that differ from c in one field or one sub-object
EditsOf(c) ==
  LET t  == c.Details.Tasks
      sc == t.Scheduling
      rg == t.Registration
      fp == t.FinalPayment
      dd == t.DeliveryDetails
  IN  { [ c EXCEPT !.Order.OrderStatus = s ] : s \in Statuses }
      \cup { [ c EXCEPT !.Order.VIN = p ] : p \in { Nil, Ptr(""), Ptr(DemoVIN) } }
      \cup { [ c EXCEPT !.Order.MktOptions = p ] : p \in { Nil } \cup { Ptr(v) : v \in FieldValues } }
      \cup { [ c EXCEPT !.Details.Tasks.Scheduling = p ] : p \in { Nil, Ptr(ZeroSchedulingTask) } }
      \cup ( IF IsNil(sc) THEN { } ELSE
             { [ c EXCEPT !.Details.Tasks.Scheduling = Ptr([ Deref(sc) EXCEPT ![f] = v ]) ] :
                 f \in DOMAIN Deref(sc), v \in FieldValues } )
      \cup { [ c EXCEPT !.Details.Tasks.Registration = p ] :
               p \in { Nil, Ptr([ OrderDetails |-> Nil ]),
                       Ptr([ OrderDetails |-> Ptr(ZeroRegistrationOrderDetails) ]) } }
      \cup ( IF IsNil(rg) \/ IsNil(Deref(rg).OrderDetails) THEN { } ELSE
             { [ c EXCEPT !.Details.Tasks.Registration =
                   Ptr([ OrderDetails |-> Ptr([ Deref(Deref(rg).OrderDetails) EXCEPT ![f] = v ]) ]) ] :
                 f \in DOMAIN Deref(Deref(rg).OrderDetails), v \in FieldValues } )
      \cup { [ c EXCEPT !.Details.Tasks.FinalPayment = p ] :
               p \in { Nil, Ptr([ Data |-> Nil ]) }
                     \cup { Ptr([ Data |-> Ptr([ ETAToDeliveryCenter |-> v ]) ]) : v \in FieldValues } }
      \cup { [ c EXCEPT !.Details.Tasks.DeliveryDetails = p ] :
               p \in { Nil, Ptr([ RegData |-> Nil ]) }
                     \cup { Ptr([ RegData |-> Ptr([ ReggieLicensePlate |-> v ]) ]) : v \in FieldValues } }

----------------------------------------------------------------------------
(* State *)

VARIABLES
  files,       \* the history directory: reference number -> nil or the JSON record
  op,          \* the storage operation last called
  argOrder,    \* the order last handed to AddSnapshot
  argHistory,  \* the history last handed to SaveHistory
  retDiffs,    \* the diffs AddSnapshot returned
  retErr,      \* the error the last operation returned ("" is nil)
  saved,       \* whether the last AddSnapshot called SaveHistory
  ioFault,     \* the outcomes of os.ReadFile and os.WriteFile in the last operation
  checklists,        \* the checklist directory: reference number -> nil or the JSON state
  checklistsBefore,  \* the checklist directory before the last checklist operation
  clCall,            \* the checklist operation last called, its arguments and results
  config,            \* the Config with the keyring entry, the tokens file and the key file
  slot,              \* the tokens of the last SaveTokens, nil after DeleteTokens
  cfgCall,           \* the Config method last called, its argument and results
  old,         \* first argument of CompareOrders
  new,         \* second argument of CompareOrders
  edits,       \* number of edits applied to old and new
  called,      \* the model function last applied to old and new
  diffs,       \* the diffs CompareOrders returned
  shown,       \* the display strings the accessors returned for new
  uiModel,     \* the tui.Model Bubble Tea holds
  apiClient,   \* the api.Client: its tokens
  account,     \* the orders of the account as the Tesla API returns them
  goroutines,  \* the bag of the goroutines running commands
  tabBar,      \* what renderTabs last rendered, and whether it did so during a write
  faults,      \* the number of requests and file operations that have failed
  refreshes,   \* the number of loadOrders commands started
  returned,    \* the loadOrders that last returned: its message, what each of its
               \* AddSnapshot calls returned, and the diffs the model held before
  handled,     \* the message Update last handled that changed the model or
               \* returned commands: its type, the key of a KeyMsg and the names
               \* of the commands
  mu,          \* Client.mu: 0 when unlocked, else the doRequest that holds it
  requests,    \* the doRequest calls on the client: the statement each is at
               \* and its locals
  issued       \* the number of token sets the token endpoint has issued on refresh

hvars == << files, op, argOrder, argHistory, retDiffs, retErr, saved, ioFault >>

dvars == << old, new, edits, called, diffs, shown >>

cvars == << checklists, checklistsBefore, clCall >>

kvars == << config, slot, cfgCall >>

rvars == << mu, requests, issued >>

uvars == << uiModel, apiClient, account, goroutines, tabBar, faults, refreshes, returned,
           handled, rvars >>

vars == << files, op, argOrder, argHistory, retDiffs, retErr, saved, ioFault,
           old, new, edits, called, diffs, shown,
           checklists, checklistsBefore, clCall,
           config, slot, cfgCall,
           uiModel, apiClient, account, goroutines, tabBar, faults, refreshes, returned,
           handled, mu, requests, issued >>

\* what the operations of the history store leave alone
restOfHistory == << dvars, cvars, kvars, uvars >>

\* what the diff engine leaves alone
restOfDiff == << hvars, cvars, kvars, uvars >>

\* what the operations of the checklist store leave alone
restOfChecklist == << hvars, dvars, kvars, uvars >>

\* what the methods of Config leave alone
restOfConfig == << hvars, dvars, cvars, uvars >>

NoFault == [ read |-> "", write |-> "" ]

EmptyHistory == [ ReferenceNumber |-> "RN1", Snapshots |-> << >> ]

NoDisplay == [ label \in { } |-> "" ]

HInit ==
  /\ files = NoFiles
  /\ op = "NewHistory"
  /\ argOrder = OrderA("RN1")
  /\ argHistory = EmptyHistory
  /\ retDiffs = << >>
  /\ retErr = ""
  /\ saved = FALSE
  /\ ioFault = NoFault

DInit ==
  /\ old = ZeroCombinedOrder("RN1", "BOOKED")
  /\ new = ZeroCombinedOrder("RN1", "BOOKED")
  /\ edits = 0
  /\ called = "none"
  /\ diffs = << >>
  /\ shown = NoDisplay

\* no checklist operation has been called
NoCall == [ name |-> "NewChecklist", referenceNumber |-> "", itemID |-> "",
            newValue |-> FALSE, err |-> "" ]

CInit ==
  /\ checklists = NoChecklists
  /\ checklistsBefore = NoChecklists
  /\ clCall = NoCall

\* no method of Config has been called
NoConfigCall == [ name |-> "New", tokens |-> Nil, err |-> "", has |-> FALSE ]

\* New() with the keyring found unavailable
KInit ==
  /\ config = NewConfig(FALSE)
  /\ slot = Nil
  /\ cfgCall = NoConfigCall

\* the instant of the session: time.Now() in Update and in the commands
SessionTime == CHOOSE t \in Instants : \A u \in Instants : u <= t

\* the keys the user presses
PressedKeys == { "enter", "r", "esc" }

\* the outcomes of the open in os.WriteFile, and of what follows the open
OpenFaults == { w \in WriteFaults : w # "write" }

WriteOnlyFaults == { w \in WriteFaults : w # "open" }

\* the failures of a request to the Tesla API ("" is success)
ApiFaults == { "", "status 500" }

\* the Config left by an earlier session that signed in: its tokens are
\* still valid
EarlierConfigs ==
  { SaveTokens(NewConfig(FALSE), IssuedTokens, SessionTime, "").c }

\* a request or a file operation fails only while the session has seen fewer
\* than MaxFaults failures
Failing(fault) ==
  IF fault = "" THEN faults' = faults
  ELSE faults < MaxFaults /\ faults' = faults + 1

\* the goroutines of the commands a signed-in session is followed through:
\* the refreshes and the auto-refresh timers. The ticks of the spinner and
\* the viewport change nothing modelled here, and the toast timers are left
\* to run
Started(cmds) ==
  LET gs == { Goroutine(cmds[k]) : k \in { j \in DOMAIN cmds :
                cmds[j].name \in { "loadOrders", "scheduleAutoRefresh" } } }
  IN  [ g \in gs |-> Cardinality({ k \in DOMAIN cmds : Goroutine(cmds[k]) = g }) ]

\* the goroutines at pc of the command name
Running(name, pc) ==
  { g \in BagToSet(goroutines) : g.cmd.name = name /\ g.pc = pc }

Env == [ config |-> config, client |-> apiClient, checklists |-> checklists,
         now |-> SessionTime ]

\* nothing has been rendered in the tab bar
NoTabBar == [ referenceNumber |-> "", history |-> "", err |-> "", during |-> FALSE ]

\* the doRequest calls followed on the client
RequestIds == 1 .. MaxRequests

\* a doRequest not yet called: the statement it is at, the refresh token it
\* handed to RefreshTokens, newTokens, the access token it put into the
\* Authorization header, the status of the response and the error it returned
NoRequest ==
  [ pc |-> "idle", refreshToken |-> "", newTokens |-> Nil, bearer |-> "",
    status |-> 0, err |-> "" ]

\* Update has handled no message
NoMessage == [ type |-> "", key |-> "", cmds |-> << >> ]

\* the program as main starts it with --watch
UInit ==
  /\ uiModel = WithAutoRefresh(NewModel)
  /\ apiClient = [ tokens |-> Nil ]
  /\ account = << OrderA("RN1"), OrderB("RN2") >>
  /\ goroutines = SetToBag({ Goroutine(Cmd("checkSavedTokens")) })
  /\ tabBar = NoTabBar
  /\ faults = 0
  /\ refreshes = 0
  /\ returned = Nil
  /\ handled = NoMessage
  /\ mu = 0
  /\ requests = [ i \in RequestIds |-> NoRequest ]
  /\ issued = 0

\* New() with the outcome of testKeyring left open
KInitAny ==
  /\ config \in { NewConfig(FALSE), NewConfig(TRUE) }
  /\ slot = Nil
  /\ cfgCall = NoConfigCall

----------------------------------------------------------------------------
(* The history store: one action per exported operation *)

Init == HInit /\ DInit /\ CInit /\ KInit /\ UInit

\* the snapshots a LoadHistory of r returns from the directory fs
Stored(fs, r) ==
  IF LoadHistory(fs, r, "").err # "" THEN << >>
  ELSE Deref(LoadHistory(fs, r, "").history).Snapshots

\* h.AddSnapshot(order)
DoAddSnapshot(order, readFault, writeFault) ==
  LET res == AddSnapshot(files, order, readFault, writeFault)
  IN  /\ TimeNow(Stored(files, order.Order.ReferenceNumber)) <= MaxTime
      /\ files' = res.files
      /\ op' = "AddSnapshot"
      /\ argOrder' = order
      /\ retDiffs' = res.diffs
      /\ retErr' = res.err
      /\ saved' = res.saved
      /\ argHistory' = EmptyHistory
      /\ ioFault' = [ read |-> readFault, write |-> writeFault ]
      /\ UNCHANGED restOfHistory

\* h.SaveHistory(history)
DoSaveHistory(history, writeFault) ==
  /\ files' = SaveHistory(files, history, writeFault).files
  /\ retErr' = SaveHistory(files, history, writeFault).err
  /\ op' = "SaveHistory"
  /\ argHistory' = history
  /\ argOrder' = OrderA("RN1")
  /\ retDiffs' = << >>
  /\ saved' = FALSE
  /\ ioFault' = [ read |-> "", write |-> writeFault ]
  /\ UNCHANGED restOfHistory

SubmitOrder ==
  \E r \in Refs :
    \E order \in Orders(r) \cup
                 ( IF Len(Stored(files, r)) <= MaxVariantLen
                   THEN VariantOrders(r) ELSE { } ) :
      DoAddSnapshot(order, "", "")

SaveSeed == \E history \in SeedHistories : DoSaveHistory(history, "")

Next == SubmitOrder \/ SaveSeed

Spec == Init /\ [][Next]_vars

----------------------------------------------------------------------------
(* A history built by AddSnapshot alone, one call after the other, long     *)
(* enough to be pruned                                                      *)

\* h.AddSnapshot(order) on the record of r, which no other operation writes
AppendOrder ==
  \E r \in Refs :
    \E order \in Orders(r) \cup
                 ( IF Len(Stored(files, r)) <= MaxVariantLen
                   THEN VariantOrders(r) ELSE { } ) :
      \E res \in { AddSnapshot(files, order, "", "") } :
        /\ TimeNow(Stored(files, r)) <= MaxAppends
        /\ files' = res.files
        /\ op' = "AddSnapshot"
        /\ argOrder' = order
        /\ retDiffs' = res.diffs
        /\ retErr' = res.err
        /\ saved' = res.saved
        /\ argHistory' = EmptyHistory
        /\ ioFault' = NoFault
        /\ UNCHANGED restOfHistory

NextSequential == AppendOrder

SpecSequential == Init /\ [][NextSequential]_vars

----------------------------------------------------------------------------
(* The history store on a file system whose reads and writes can fail *)

SubmitOrderFaulty ==
  \E r \in Refs, readFault \in ReadFaults, writeFault \in WriteFaults :
    \E order \in Orders(r) \cup
                 ( IF Len(Stored(files, r)) <= MaxVariantLen
                   THEN VariantOrders(r) ELSE { } ) :
      DoAddSnapshot(order, readFault, writeFault)

\* the histories handed to SaveHistory on the failing file system: long
\* enough to be pruned or nearly so
FaultSeedHistories ==
  { SeedHistory(r, n, 1) : r \in SeedRefs, n \in (MaxSaveLen - 2)..MaxSaveLen }

SaveSeedFaulty ==
  \E history \in FaultSeedHistories, writeFault \in WriteFaults :
    DoSaveHistory(history, writeFault)

NextFault == SubmitOrderFaulty \/ SaveSeedFaulty

SpecFault == Init /\ [][NextFault]_vars

----------------------------------------------------------------------------
(* The checklist store *)

\* c.ToggleItem(referenceNumber, itemID)
DoToggleItem(referenceNumber, itemID) ==
  LET res == ToggleItem(checklists, referenceNumber, itemID, "", "")
  IN  /\ checklists' = res.files
      /\ checklistsBefore' = checklists
      /\ clCall' = [ name |-> "ToggleItem", referenceNumber |-> referenceNumber,
                     itemID |-> itemID, newValue |-> res.newValue, err |-> res.err ]
      /\ UNCHANGED restOfChecklist

\* c.SaveState(state)
DoSaveState(state) ==
  LET res == SaveState(checklists, state, "")
  IN  /\ checklists' = res.files
      /\ checklistsBefore' = checklists
      /\ clCall' = [ name |-> "SaveState", referenceNumber |-> state.ReferenceNumber,
                     itemID |-> "", newValue |-> FALSE, err |-> res.err ]
      /\ UNCHANGED restOfChecklist

Toggle == \E r \in Refs, itemID \in ItemIDs : DoToggleItem(r, itemID)

Save == \E state \in SavedStates : DoSaveState(state)

NextChecklist == Toggle \/ Save

SpecChecklist == Init /\ [][NextChecklist]_vars

----------------------------------------------------------------------------
(* Token storage: the methods of Config on a keyring that is unavailable   *)
(* or works                                                                *)

\* c.SaveTokens(tokens)
DoSaveTokens(tokens, now) ==
  LET res == SaveTokens(config, tokens, now, "")
  IN  /\ config' = res.c
      /\ slot' = IF res.err = "" THEN Ptr(res.tokens) ELSE slot
      /\ cfgCall' = [ name |-> "SaveTokens", tokens |-> Ptr(res.tokens),
                      err |-> res.err, has |-> FALSE ]
      /\ UNCHANGED restOfConfig

\* c.LoadTokens()
DoLoadTokens ==
  LET res == LoadTokens(config, "")
  IN  /\ config' = res.c
      /\ cfgCall' = [ name |-> "LoadTokens", tokens |-> res.tokens,
                      err |-> res.err, has |-> FALSE ]
      /\ UNCHANGED slot
      /\ UNCHANGED restOfConfig

\* c.DeleteTokens()
DoDeleteTokens ==
  LET res == DeleteTokens(config)
  IN  /\ config' = res.c
      /\ slot' = Nil
      /\ cfgCall' = [ name |-> "DeleteTokens", tokens |-> Nil,
                      err |-> res.err, has |-> FALSE ]
      /\ UNCHANGED restOfConfig

\* c.HasTokens()
DoHasTokens ==
  /\ cfgCall' = [ name |-> "HasTokens", tokens |-> Nil, err |-> "",
                  has |-> HasTokens(config) ]
  /\ UNCHANGED << config, slot >>
  /\ UNCHANGED restOfConfig

SaveSomeTokens == \E tokens \in TokenInputs, now \in Instants : DoSaveTokens(tokens, now)

NextTokens == SaveSomeTokens \/ DoLoadTokens \/ DoDeleteTokens \/ DoHasTokens

InitTokens == HInit /\ DInit /\ CInit /\ KInitAny /\ UInit

SpecTokens == InitTokens /\ [][NextTokens]_vars

----------------------------------------------------------------------------
(* The diff engine: CompareOrders and the accessors applied to bounded     *)
(* pairs of orders                                                         *)

DisplayLabels ==
  << "Order Status", "VIN", "Delivery Window", "Delivery Appointment",
     "ETA to Delivery Center", "Vehicle Location", "Delivery Method",
     "Delivery Center", "Odometer", "License Plate", "Reservation Date",
     "Order Booked Date", "Vehicle Options" >>

InitDiff ==
  /\ HInit
  /\ CInit
  /\ KInit
  /\ UInit
  /\ old \in BaseOrders
  /\ new \in BaseOrders
  /\ edits = 0
  /\ called = "none"
  /\ diffs = << >>
  /\ shown = NoDisplay

EditOld ==
  /\ edits < MaxEdits
  /\ \E c \in EditsOf(old) : c # old /\ old' = c
  /\ edits' = edits + 1
  /\ called' = "none"
  /\ diffs' = << >>
  /\ shown' = NoDisplay
  /\ UNCHANGED new
  /\ UNCHANGED restOfDiff

EditNew ==
  /\ edits < MaxEdits
  /\ \E c \in EditsOf(new) : c # new /\ new' = c
  /\ edits' = edits + 1
  /\ called' = "none"
  /\ diffs' = << >>
  /\ shown' = NoDisplay
  /\ UNCHANGED old
  /\ UNCHANGED restOfDiff

\* model.CompareOrders(old, new)
DoCompareOrders ==
  /\ called = "none"
  /\ called' = "CompareOrders"
  /\ diffs' = CompareOrders(old, new)
  /\ UNCHANGED << old, new, edits, shown >>
  /\ UNCHANGED restOfDiff

\* every display accessor called on new
DoAccessors ==
  /\ called = "none"
  /\ called' = "Accessors"
  /\ shown' =
       [ label \in { DisplayLabels[i] : i \in 2..12 } |->
           CASE label = "VIN"                    -> GetVIN(new.Order)
             [] label = "Delivery Window"        -> GetDeliveryWindow(new)
             [] label = "Delivery Appointment"   -> GetDeliveryAppointment(new)
             [] label = "ETA to Delivery Center" -> GetETAToDeliveryCenter(new)
             [] label = "Vehicle Location"       -> GetVehicleLocation(new)
             [] label = "Delivery Method"        -> GetDeliveryType(new)
             [] label = "Delivery Center"        -> GetDeliveryCenter(new)
             [] label = "Odometer"               -> GetOdometer(new)
             [] label = "License Plate"          -> GetLicensePlate(new)
             [] label = "Reservation Date"       -> GetReservationDate(new)
             [] label = "Order Booked Date"      -> GetOrderBookedDate(new) ]
  /\ UNCHANGED << old, new, edits, diffs >>
  /\ UNCHANGED restOfDiff

NextDiff == EditOld \/ EditNew \/ DoCompareOrders \/ DoAccessors

SpecDiff == InitDiff /\ [][NextDiff]_vars

----------------------------------------------------------------------------
(* The TUI: Bubble Tea calls Update with one message at a time; every      *)
(* command runs in a goroutine of its own and its message is handled when  *)
(* it returns. The session runs with --watch on the account's two orders,  *)
(* signed in by the tokens an earlier session saved.                       *)

InitTUI ==
  /\ HInit
  /\ DInit
  /\ CInit
  /\ config \in EarlierConfigs
  /\ slot = Nil
  /\ cfgCall = NoConfigCall
  /\ UInit

\* what the TUI leaves alone besides the count of failures
restOfTUI == << op, argOrder, argHistory, retDiffs, retErr, saved, ioFault,
                dvars, checklistsBefore, clCall, slot, cfgCall, handled, rvars >>

\* Bubble Tea calls View on the model mdl while the goroutines gs run: the
\* detail view renders the tab bar
Rendered(mdl, gs) ==
  IF mdl.view = "ViewDetail" /\ mdl.selectedOrder < Len(mdl.orders)
  THEN CHOOSE bar \in
         { [ referenceNumber |-> tabs.referenceNumber,
             history |-> tabs.history,
             err     |-> tabs.err,
             during  |-> \E g \in BagToSet(gs) :
                           /\ g.cmd.name = "loadOrders"
                           /\ g.pc = "write"
                           /\ CurrentOrder(g).Order.ReferenceNumber = tabs.referenceNumber ] :
           tabs \in { renderTabs(mdl, files) } } : TRUE
  ELSE NoTabBar

\* the loadOrders commands among cmds
Refreshes(cmds) == Cardinality({ k \in DOMAIN cmds : cmds[k].name = "loadOrders" })

\* Bubble Tea hands msg to Update as the goroutine g returns (g is the empty
\* bag for a message of the terminal), starts the commands Update returns
\* and calls View
Handle(g, msg) ==
  \E r \in { Update(uiModel, msg, Env) } :
    /\ refreshes + Refreshes(r.cmds) <= MaxRefreshes
    /\ refreshes' = refreshes + Refreshes(r.cmds)
    /\ uiModel' = r.m
    /\ config' = r.e.config
    /\ apiClient' = r.e.client
    /\ checklists' = r.e.checklists
    /\ goroutines' = (goroutines (-) g) (+) Started(r.cmds)
    /\ tabBar' = Rendered(r.m, (goroutines (-) g) (+) Started(r.cmds))

PressKey ==
  /\ \E key \in PressedKeys : Handle(EmptyBag, [ type |-> "KeyMsg", key |-> key ])
  /\ UNCHANGED << files, account, faults, returned, restOfTUI >>

\* checkSavedTokens returns; Bubble Tea drops a nil message
StartupCheck ==
  /\ \E g \in Running("checkSavedTokens", "start"),
        refreshed \in { [ tokens |-> IssuedTokens, err |-> "" ],
                        [ tokens |-> IssuedTokens, err |-> "status 401" ] } :
       \E res \in { checkSavedTokens(config, SessionTime, refreshed) } :
         IF IsNil(res.msg)
         THEN /\ goroutines' = goroutines (-) SetToBag({g})
              /\ config' = res.c
              /\ UNCHANGED << uiModel, apiClient, checklists, tabBar, refreshes >>
         ELSE \E r \in { Update(uiModel, Deref(res.msg), [ Env EXCEPT !.config = res.c ]) } :
                /\ refreshes + Refreshes(r.cmds) <= MaxRefreshes
                /\ refreshes' = refreshes + Refreshes(r.cmds)
                /\ uiModel' = r.m
                /\ config' = r.e.config
                /\ apiClient' = r.e.client
                /\ checklists' = r.e.checklists
                /\ goroutines' = (goroutines (-) SetToBag({g})) (+) Started(r.cmds)
                /\ tabBar' = Rendered(r.m, (goroutines (-) SetToBag({g})) (+) Started(r.cmds))
  /\ UNCHANGED << files, account, faults, returned, restOfTUI >>

\* the timer of scheduleAutoRefresh fires
AutoRefreshTick ==
  /\ \E g \in Running("scheduleAutoRefresh", "start") :
       Handle(SetToBag({g}), [ type |-> "AutoRefreshTickMsg" ])
  /\ UNCHANGED << files, account, faults, returned, restOfTUI >>

\* a goroutine moves from g to h
Moves(g, h) == goroutines' = (goroutines (-) SetToBag({g})) (+) SetToBag({h})

\* loadOrders: GetAllOrderData returns
FetchOrders ==
  /\ \E g \in Running("loadOrders", "start"), apiFault \in ApiFaults :
       /\ Moves(g, loadOrders_GetAllOrderData(g, apiClient, account, apiFault))
       /\ Failing(apiFault)
  /\ UNCHANGED << files, uiModel, config, apiClient, checklists, account, tabBar,
                  returned, refreshes, restOfTUI >>

\* loadOrders: AddSnapshot loads the history of the next order
LoadRecord ==
  /\ \E g \in Running("loadOrders", "AddSnapshot"), readFault \in ReadFaults :
       \E res \in { loadOrders_AddSnapshot(g, files, readFault) } :
         Moves(g, res.g) /\ files' = res.files /\ Failing(readFault)
  /\ UNCHANGED << uiModel, config, apiClient, checklists, account, tabBar, returned,
                  refreshes, restOfTUI >>

\* loadOrders: SaveHistory opens the history file
OpenRecord ==
  /\ \E g \in Running("loadOrders", "os.WriteFile"), writeFault \in OpenFaults :
       \E res \in { loadOrders_OpenFile(g, files, writeFault) } :
         Moves(g, res.g) /\ files' = res.files /\ Failing(writeFault)
  /\ UNCHANGED << uiModel, config, apiClient, checklists, account, tabBar, returned,
                  refreshes, restOfTUI >>

\* loadOrders: SaveHistory writes the history file
WriteRecord ==
  /\ \E g \in Running("loadOrders", "write"), writeFault \in WriteOnlyFaults :
       \E res \in { loadOrders_Write(g, files, writeFault) } :
         Moves(g, res.g) /\ files' = res.files /\ Failing(writeFault)
  /\ UNCHANGED << uiModel, config, apiClient, checklists, account, tabBar, returned,
                  refreshes, restOfTUI >>

\* loadOrders returns
OrdersLoaded ==
  /\ \E g \in Running("loadOrders", "return") :
       \E msg \in { loadOrders_Return(g) } :
         /\ Handle(SetToBag({g}), msg)
         /\ returned' = Ptr([ msg |-> msg, fetched |-> g.orders,
                              results |-> g.results, before |-> uiModel.diffs ])
  /\ UNCHANGED << files, account, faults, restOfTUI >>

\* Tesla moves an order of the account along
OrderDelivered ==
  /\ \E k \in DOMAIN account :
       /\ account[k] = OrderA(account[k].Order.ReferenceNumber)
       /\ account' = [ account EXCEPT ![k] = OrderB(account[k].Order.ReferenceNumber) ]
  /\ UNCHANGED << files, uiModel, config, apiClient, checklists, goroutines, tabBar,
                  faults, refreshes, returned, restOfTUI >>

NextTUI ==
  \/ PressKey \/ StartupCheck
  \/ AutoRefreshTick \/ FetchOrders \/ LoadRecord \/ OpenRecord \/ WriteRecord
  \/ OrdersLoaded \/ OrderDelivered

SpecTUI == InitTUI /\ [][NextTUI]_vars

----------------------------------------------------------------------------
(* A session of the TUI from startup through login, refreshes and logout.  *)
(* Each command runs as one step when its goroutine returns, and Update    *)
(* handles its message in the same step.                                   *)

\* the keys the user presses outside the text input
SessionKeys ==
  { "enter", "esc", "backspace", "r", "L", "Y", "N", "?", "q", "down", "up" }

\* the keys the user presses besides to answer the logout confirmation
ConfirmationKeys == { "y", "n" }

\* what the user enters into the empty text input: the pasted callback URL
InputKeys == { CallbackURL }

\* the events of the mouse: the wheel and a release of the left button on one
\* of the first two rows of the table
MouseEvents ==
  { [ Button |-> b, Action |-> "MouseActionPress", X |-> 0, Y |-> 0 ] :
      b \in { "MouseButtonWheelUp", "MouseButtonWheelDown" } }
  \cup { [ Button |-> "MouseButtonLeft", Action |-> "MouseActionRelease", X |-> 0, Y |-> y ] :
           y \in { 6, 7 } }

\* the errors of the requests and removals a command makes ("" is none)
CommandFaults == { "", "failed" }

\* the commands whose goroutines the session is followed through; the ticks
\* of the spinner, the viewport, the cursor and the clipboard change nothing
\* modelled here, and the toast timers are left to run
SessionCommands ==
  { "loadOrders", "scheduleAutoRefresh", "logout", "openBrowserForAuth", "ExchangeCode" }

\* the goroutines Bubble Tea starts for cmds
Launched(cmds) ==
  LET gs == { Goroutine(cmds[k]) : k \in { j \in DOMAIN cmds :
                cmds[j].name \in SessionCommands } }
  IN  [ g \in gs |-> Cardinality({ k \in DOMAIN cmds : Goroutine(cmds[k]) = g }) ]

\* the goroutines that run the command name
InFlight(name) == { g \in BagToSet(goroutines) : g.cmd.name = name }

\* tea.Quit has been returned: the program ends
Quitting == \E k \in DOMAIN handled.cmds : handled.cmds[k] = "tea.Quit"

\* main started with --watch and the tokens of an earlier session
InitSession ==
  /\ HInit
  /\ DInit
  /\ CInit
  /\ config \in EarlierConfigs
  /\ slot = Nil
  /\ cfgCall = NoConfigCall
  /\ UInit

\* what the session leaves alone
restOfSession == << op, argOrder, argHistory, retDiffs, retErr, saved, ioFault,
                    dvars, checklistsBefore, clCall, slot, cfgCall,
                    tabBar, refreshes, returned, rvars >>

\* Bubble Tea hands msg to Update as the goroutines g return (the empty bag
\* for a message of the terminal) and starts the commands Update returns; env
\* is what the model's pointers reach
Deliver(g, msg, env) ==
  \E r \in { Update(uiModel, msg, env) } :
    /\ ~Quitting
    /\ uiModel' = r.m
    /\ config' = r.e.config
    /\ apiClient' = r.e.client
    /\ checklists' = r.e.checklists
    /\ goroutines' = (goroutines (-) g) (+) Launched(r.cmds)
    /\ handled' = IF r.m = uiModel /\ r.cmds = << >> THEN handled
                  ELSE [ type |-> msg.type,
                         key  |-> IF msg.type = "KeyMsg" THEN msg.key ELSE "",
                         cmds |-> [ k \in DOMAIN r.cmds |-> r.cmds[k].name ] ]

\* the user starts no further command while MaxGoroutines are in flight
Patient == BagCardinality(goroutines') <= MaxGoroutines

\* the user presses a key; into the text input the user pastes the URL, once
KeyPressed ==
  /\ \E key \in IF uiModel.view = "ViewLogin" /\ ~IsNil(uiModel.authSession)
                 THEN { "enter", "esc" } \cup
                      ( IF uiModel.textInput = "" THEN InputKeys ELSE { } )
                 ELSE IF uiModel.confirmingLogout
                 THEN SessionKeys \cup ConfirmationKeys
                 ELSE SessionKeys :
       Deliver(EmptyBag, [ type |-> "KeyMsg", key |-> key ], Env)
  /\ Patient
  /\ UNCHANGED << files, account, faults, restOfSession >>

MouseUsed ==
  /\ \E mouse \in MouseEvents :
       Deliver(EmptyBag, [ type |-> "MouseMsg", mouse |-> mouse ], Env)
  /\ UNCHANGED << files, account, faults, restOfSession >>

\* checkSavedTokens returns; Bubble Tea drops a nil message
SavedTokensChecked ==
  /\ \E g \in InFlight("checkSavedTokens") :
       \E res \in { checkSavedTokens(config, SessionTime,
                                      [ tokens |-> IssuedTokens, err |-> "" ]) } :
         IF IsNil(res.msg)
         THEN /\ ~Quitting
              /\ goroutines' = goroutines (-) SetToBag({g})
              /\ config' = res.c
              /\ UNCHANGED << uiModel, apiClient, checklists, handled >>
         ELSE Deliver(SetToBag({g}), Deref(res.msg), [ Env EXCEPT !.config = res.c ])
  /\ UNCHANGED << files, account, faults, restOfSession >>

\* openBrowserForAuth returns
BrowserOpened ==
  /\ \E g \in InFlight("openBrowserForAuth") :
       Deliver(SetToBag({g}), openBrowserForAuth(""), Env)
  /\ UNCHANGED << files, account, faults, restOfSession >>

\* the command of submitCallbackURL returns
CodeExchanged ==
  /\ \E g \in InFlight("ExchangeCode"), fault \in CommandFaults :
       /\ Deliver(SetToBag({g}), ExchangeCode(fault), Env)
       /\ Failing(fault)
  /\ UNCHANGED << files, account, restOfSession >>

\* loadOrders runs and returns
OrdersFetched ==
  /\ \E g \in InFlight("loadOrders"), apiFault \in ApiFaults :
       \E res \in { loadOrders(g, apiClient, account, files, apiFault) } :
         /\ Deliver(SetToBag({g}), res.msg, Env)
         /\ files' = res.files
         /\ Failing(apiFault)
  /\ UNCHANGED << account, restOfSession >>

\* logout runs and returns
LoggedOut ==
  /\ \E g \in InFlight("logout"), deleteFault \in CommandFaults :
       \E res \in { logout(config, deleteFault) } :
         /\ Deliver(SetToBag({g}), res.msg, [ Env EXCEPT !.config = res.c ])
         /\ Failing(deleteFault)
  /\ UNCHANGED << files, account, restOfSession >>

\* the timer of scheduleAutoRefresh fires
Ticked ==
  /\ \E g \in InFlight("scheduleAutoRefresh") :
       Deliver(SetToBag({g}), [ type |-> "AutoRefreshTickMsg" ], Env)
  /\ UNCHANGED << files, account, faults, restOfSession >>

\* Tesla delivers the first order of the account and no longer lists the
\* second, delivered before
AccountChanged ==
  /\ ~Quitting
  /\ account = << OrderA("RN1"), OrderB("RN2") >>
  /\ account' = << OrderB("RN1") >>
  /\ UNCHANGED << files, uiModel, config, apiClient, checklists, goroutines, faults,
                  handled, restOfSession >>

NextSession ==
  \/ KeyPressed \/ MouseUsed \/ SavedTokensChecked \/ BrowserOpened \/ CodeExchanged
  \/ OrdersFetched \/ LoggedOut \/ Ticked \/ AccountChanged

SpecSession == InitSession /\ [][NextSession]_vars

\* A session watched for its refresh cycle: the user refreshes, opens and
\* leaves the detail view, logs out and in again and quits; the account stays
\* as it is and the mouse is not used.
WatchKeys == { "r", "enter", "esc", "L", "Y", "q" }

WatchKeyPressed ==
  /\ \E key \in IF uiModel.view = "ViewLogin" /\ ~IsNil(uiModel.authSession)
                 THEN { "enter", "esc" } \cup
                      ( IF uiModel.textInput = "" THEN InputKeys ELSE { } )
                 ELSE WatchKeys :
       Deliver(EmptyBag, [ type |-> "KeyMsg", key |-> key ], Env)
  /\ Patient
  /\ UNCHANGED << files, account, faults, restOfSession >>

NextWatch ==
  \/ WatchKeyPressed \/ SavedTokensChecked \/ BrowserOpened \/ CodeExchanged
  \/ OrdersFetched \/ LoggedOut \/ Ticked

\* the scheduling of Bubble Tea: a command that has been started returns and
\* its message is handled, a timer that has been set fires. Nothing obliges
\* the user to press a key.
FairWatch ==
  /\ WF_vars(SavedTokensChecked)
  /\ WF_vars(BrowserOpened)
  /\ WF_vars(CodeExchanged)
  /\ WF_vars(OrdersFetched)
  /\ WF_vars(LoggedOut)
  /\ WF_vars(Ticked)

SpecWatch == InitSession /\ [][NextWatch]_vars /\ FairWatch

----------------------------------------------------------------------------
(* The api.Client under concurrent requests: the loadOrders commands that are
   in flight at once share the Client of the model, and each of their
   requests runs doRequest. One action per statement of doRequest and of
   EnsureValidTokens that touches the tokens field, the mutex or the network. *)

\* the tokens the AuthResultMsg case hands to SetTokens: expired at
\* SessionTime, and valid
SessionTokens == { [ IssuedTokens EXCEPT !.ExpiresAt = at ] : at \in { 1000, 4000 } }

\* the status codes of the responses
StatusCodes == { 200, 401 }

\* doRequest i is at the statement pc
At(i, pc) == requests[i].pc = pc

\* doRequest i returns err
Returned(i, err) == [ requests[i] EXCEPT !.pc = "done", !.err = err ]

restOfClient == << hvars, dvars, cvars, slot, cfgCall, uiModel, account, goroutines,
                   tabBar, refreshes, returned, handled >>

\* Client.SetTokens, called by the AuthResultMsg case of Update
DoSetTokens ==
  /\ IsNil(apiClient.tokens)
  /\ \E t \in SessionTokens : apiClient' = [ apiClient EXCEPT !.tokens = Ptr(t) ]
  /\ UNCHANGED << config, faults, rvars, restOfClient >>

\* a request of a loadOrders command calls doRequest
doRequest_Call ==
  /\ \E i \in RequestIds :
       /\ At(i, "idle")
       /\ requests' = [ requests EXCEPT ![i].pc = "EnsureValidTokens" ]
  /\ UNCHANGED << apiClient, config, faults, mu, issued, restOfClient >>

\* EnsureValidTokens, lines 50-56: the nil check and IsExpired
EnsureValidTokens_Check ==
  /\ \E i \in RequestIds :
       /\ At(i, "EnsureValidTokens")
       /\ requests' =
            [ requests EXCEPT ![i] =
                IF IsNil(apiClient.tokens) THEN Returned(i, "not authenticated")
                ELSE IF ~IsExpired(Deref(apiClient.tokens), SessionTime)
                THEN [ @ EXCEPT !.pc = "Header" ]
                ELSE [ @ EXCEPT !.pc = "Ensure_Call" ] ]
  /\ UNCHANGED << apiClient, config, faults, mu, issued, restOfClient >>

\* EnsureValidTokens, line 59: c.tokens.RefreshToken is read and
\* RefreshTokens is called
EnsureValidTokens_Refresh ==
  /\ \E i \in RequestIds :
       /\ At(i, "Ensure_Call")
       /\ requests' = [ requests EXCEPT
                          ![i].pc = "Ensure_RefreshTokens",
                          ![i].refreshToken = Deref(apiClient.tokens).RefreshToken ]
  /\ UNCHANGED << apiClient, config, faults, mu, issued, restOfClient >>

\* EnsureValidTokens, lines 59-62: RefreshTokens returns
EnsureValidTokens_Refreshed ==
  /\ \E i \in RequestIds, fault \in CommandFaults :
       \E res \in { RefreshTokens(requests[i].refreshToken, issued + 1, SessionTime, fault) } :
         /\ At(i, "Ensure_RefreshTokens")
         /\ Failing(fault)
         /\ IF res.err # ""
            THEN /\ requests' = [ requests EXCEPT
                                   ![i] = Returned(i, "failed to refresh tokens: " \o res.err) ]
                 /\ issued' = issued
            ELSE /\ requests' = [ requests EXCEPT ![i].pc = "Ensure_Assign",
                                                  ![i].newTokens = res.tokens ]
                 /\ issued' = issued + 1
  /\ UNCHANGED << apiClient, config, mu, restOfClient >>

\* EnsureValidTokens, line 64: c.tokens = newTokens
EnsureValidTokens_Assign ==
  /\ \E i \in RequestIds :
       /\ At(i, "Ensure_Assign")
       /\ apiClient' = [ apiClient EXCEPT !.tokens = requests[i].newTokens ]
       /\ requests' = [ requests EXCEPT ![i].pc = "Ensure_SaveTokens" ]
  /\ UNCHANGED << config, faults, mu, issued, restOfClient >>

\* EnsureValidTokens, lines 67-71: SaveTokens and the return
EnsureValidTokens_Save ==
  /\ \E i \in { j \in RequestIds : At(j, "Ensure_SaveTokens") } :
       \E stored \in { SaveTokens(config, Deref(requests[i].newTokens), SessionTime, "") } :
         /\ config' = stored.c
         /\ requests' =
              [ requests EXCEPT ![i] =
                  IF stored.err # ""
                  THEN Returned(i, "failed to save refreshed tokens: " \o stored.err)
                  ELSE [ @ EXCEPT !.pc = "Header" ] ]
  /\ UNCHANGED << apiClient, faults, mu, issued, restOfClient >>

\* doRequest, lines 80-86: the Authorization header from c.tokens.AccessToken
doRequest_Header ==
  /\ \E i \in RequestIds :
       /\ At(i, "Header")
       /\ requests' = [ requests EXCEPT
                          ![i].pc = "Do",
                          ![i].bearer = Deref(apiClient.tokens).AccessToken ]
  /\ UNCHANGED << apiClient, config, faults, mu, issued, restOfClient >>

\* doRequest, lines 88-94 and 126: the response; Tesla rejects an access
\* token when it sees fit
doRequest_Do ==
  /\ \E i \in RequestIds, status \in StatusCodes :
       /\ At(i, "Do")
       /\ requests' = [ requests EXCEPT
                          ![i].status = status,
                          ![i].pc = IF status = 401 THEN "Lock" ELSE "done" ]
  /\ UNCHANGED << apiClient, config, faults, mu, issued, restOfClient >>

\* doRequest, line 98: c.mu.Lock()
doRequest_Lock ==
  /\ \E i \in RequestIds :
       /\ At(i, "Lock")
       /\ mu = 0
       /\ mu' = i
       /\ requests' = [ requests EXCEPT ![i].pc = "Retry_Call" ]
  /\ UNCHANGED << apiClient, config, faults, issued, restOfClient >>

\* doRequest, line 99: c.tokens.RefreshToken is read and RefreshTokens is
\* called
doRequest_Refresh ==
  /\ \E i \in RequestIds :
       /\ At(i, "Retry_Call")
       /\ requests' = [ requests EXCEPT
                          ![i].pc = "Retry_RefreshTokens",
                          ![i].refreshToken = Deref(apiClient.tokens).RefreshToken ]
  /\ UNCHANGED << apiClient, config, faults, mu, issued, restOfClient >>

\* doRequest, lines 99-103: RefreshTokens returns; on an error the mutex is
\* unlocked and doRequest returns
doRequest_Refreshed ==
  /\ \E i \in RequestIds, fault \in CommandFaults :
       \E res \in { RefreshTokens(requests[i].refreshToken, issued + 1, SessionTime, fault) } :
         /\ At(i, "Retry_RefreshTokens")
         /\ Failing(fault)
         /\ IF res.err # ""
            THEN /\ requests' =
                      [ requests EXCEPT
                          ![i] = Returned(i, "token expired and refresh failed: " \o res.err) ]
                 /\ mu' = 0
                 /\ issued' = issued
            ELSE /\ requests' = [ requests EXCEPT ![i].pc = "Retry_Assign",
                                                  ![i].newTokens = res.tokens ]
                 /\ mu' = mu
                 /\ issued' = issued + 1
  /\ UNCHANGED << apiClient, config, restOfClient >>

\* doRequest, line 105: c.tokens = newTokens
doRequest_Assign ==
  /\ \E i \in RequestIds :
       /\ At(i, "Retry_Assign")
       /\ apiClient' = [ apiClient EXCEPT !.tokens = requests[i].newTokens ]
       /\ requests' = [ requests EXCEPT ![i].pc = "Retry_SaveTokens" ]
  /\ UNCHANGED << config, faults, mu, issued, restOfClient >>

\* doRequest, lines 106-109: SaveTokens, whose error is printed
doRequest_Save ==
  /\ \E i \in { j \in RequestIds : At(j, "Retry_SaveTokens") } :
       \E stored \in { SaveTokens(config, Deref(requests[i].newTokens), SessionTime, "") } :
         /\ config' = stored.c
         /\ requests' = [ requests EXCEPT ![i].pc = "Unlock" ]
  /\ UNCHANGED << apiClient, faults, mu, issued, restOfClient >>

\* doRequest, line 110: c.mu.Unlock()
doRequest_Unlock ==
  /\ \E i \in RequestIds :
       /\ At(i, "Unlock")
       /\ mu' = 0
       /\ requests' = [ requests EXCEPT ![i].pc = "Retry_Header" ]
  /\ UNCHANGED << apiClient, config, faults, issued, restOfClient >>

\* doRequest, lines 113-118: the header of the retry from c.tokens.AccessToken
doRequest_RetryHeader ==
  /\ \E i \in RequestIds :
       /\ At(i, "Retry_Header")
       /\ requests' = [ requests EXCEPT
                          ![i].pc = "Retry_Do",
                          ![i].bearer = Deref(apiClient.tokens).AccessToken ]
  /\ UNCHANGED << apiClient, config, faults, mu, issued, restOfClient >>

\* doRequest, lines 120-126: the response to the retry is returned
doRequest_RetryDo ==
  /\ \E i \in RequestIds, status \in StatusCodes :
       /\ At(i, "Retry_Do")
       /\ requests' = [ requests EXCEPT ![i].status = status, ![i].pc = "done" ]
  /\ UNCHANGED << apiClient, config, faults, mu, issued, restOfClient >>

NextClient ==
  \/ DoSetTokens \/ doRequest_Call
  \/ EnsureValidTokens_Check \/ EnsureValidTokens_Refresh \/ EnsureValidTokens_Refreshed
  \/ EnsureValidTokens_Assign \/ EnsureValidTokens_Save
  \/ doRequest_Header \/ doRequest_Do \/ doRequest_Lock \/ doRequest_Refresh
  \/ doRequest_Refreshed \/ doRequest_Assign \/ doRequest_Save \/ doRequest_Unlock
  \/ doRequest_RetryHeader \/ doRequest_RetryDo

SpecClient == Init /\ [][NextClient]_vars

----------------------------------------------------------------------------
(* Properties of the history store (checked under Spec) *)

\* the JSON snapshots in the record of r (the record exists)
Record(fs, r) == Deref(fs[r]).json.snapshots

\* the newest stored snapshot of r (the history is not empty)
LastStored(fs, r) == Stored(fs, r)[Len(Stored(fs, r))]

Min(a, b) == IF a < b THEN a ELSE b

\* C1: after any sequence of AddSnapshot and SaveHistory calls every
\* persisted history record holds at most maxHistoryEntries (20) snapshots.
C1_RetentionBound ==
  \A r \in Refs :
    IsNil(files[r]) \/ Len(Record(files, r)) <= maxHistoryEntries

\* a record of 20 snapshots whose oldest entry AddSnapshot has just dropped,
\* while the other order has a record of its own
C1_Witness ==
  /\ op = "AddSnapshot" /\ saved
  /\ argOrder.Order.ReferenceNumber = "RN1"
  /\ ~IsNil(files["RN1"]) /\ ~IsNil(files["RN2"])
  /\ Len(Record(files, "RN1")) = maxHistoryEntries
  /\ Record(files, "RN1")[1].timestamp = Record(files, "RN1")[maxHistoryEntries].timestamp - 19
  /\ Record(files, "RN1")[maxHistoryEntries].timestamp >= 2

\* C2: AddSnapshot(order) on a non-empty stored history whose newest snapshot
\* compares equal to order returns no diffs and no error, does not call
\* SaveHistory and leaves every record as it was; and submitting the same
\* order again right after it became the first snapshot leaves one snapshot.
C2_NoChangeIsNoWrite ==
  [][ \A r \in Refs :
        /\ ( /\ op' = "AddSnapshot"
             /\ argOrder'.Order.ReferenceNumber = r
             /\ Len(Stored(files, r)) > 0
             /\ CompareOrders(LastStored(files, r).Data, argOrder') = << >> )
           => ( /\ retDiffs' = << >>
                /\ retErr' = ""
                /\ ~saved'
                /\ files' = files )
        /\ ( /\ op = "AddSnapshot" /\ saved /\ retErr = ""
             /\ argOrder.Order.ReferenceNumber = r
             /\ Len(Stored(files, r)) = 1
             /\ op' = "AddSnapshot"
             /\ argOrder' = argOrder )
           => ( /\ retDiffs' = << >>
                /\ Len(Stored(files', r)) = 1
                /\ files' = files )
    ]_vars

\* AddSnapshot has returned without a write for an order that is not the
\* stored value but displays the same
C2_Witness ==
  \E r \in Refs :
    /\ op = "AddSnapshot" /\ ~saved /\ retDiffs = << >>
    /\ argOrder = OrderA2(r)
    /\ Len(Stored(files, r)) = 1
    /\ LastStored(files, r).Data = OrderA(r)

\* C3: AddSnapshot(order) on a non-empty stored history whose newest snapshot
\* differs from order writes the previous snapshots followed by one new
\* snapshot that holds order, cut from the front to 20 entries, and returns
\* CompareOrders(previous newest snapshot, order).
C3_ChangeAppendsNewest ==
  [][ \A r \in Refs :
        ( /\ op' = "AddSnapshot"
          /\ argOrder'.Order.ReferenceNumber = r
          /\ Len(Stored(files, r)) > 0
          /\ CompareOrders(LastStored(files, r).Data, argOrder') # << >> )
        => /\ saved'
           /\ retErr' = ""
           /\ retDiffs' = CompareOrders(LastStored(files, r).Data, argOrder')
           /\ ~IsNil(files'[r])
           /\ Deref(files'[r]).complete
           /\ Deref(files'[r]).json.referenceNumber = r
           /\ LET prev == Record(files, r)
                  cur  == Record(files', r)
              IN  /\ Len(cur) = Min(Len(prev) + 1, maxHistoryEntries)
                  /\ cur[Len(cur)].data = marshalCombinedOrder(argOrder')
                  /\ \A i \in 1..(Len(cur) - 1) :
                       cur[i] = prev[Len(prev) - (Len(cur) - 1) + i]
    ]_vars

\* the delivered order has been appended to a booked one: the record grew to
\* two snapshots and the three changed fields were returned
C3_Witness ==
  \E r \in Refs :
    /\ op = "AddSnapshot" /\ saved
    /\ argOrder = OrderB(r)
    /\ Len(Record(files, r)) = 2
    /\ Record(files, r)[1].data = marshalCombinedOrder(OrderA(r))
    /\ retDiffs = << [ Field |-> "Order Status", OldValue |-> "BOOKED", NewValue |-> "DELIVERED" ],
                     [ Field |-> "VIN", OldValue |-> "N/A", NewValue |-> DemoVIN ],
                     [ Field |-> "Delivery Window", OldValue |-> "N/A", NewValue |-> "Jan-Feb" ] >>

\* C4: AddSnapshot(order) for a reference number without a record (which
\* loads as an empty history and no error) returns no diffs and no error and
\* leaves a record of exactly one snapshot, which holds order.
C4_FirstSnapshot ==
  [][ \A r \in Refs :
        ( /\ op' = "AddSnapshot"
          /\ argOrder'.Order.ReferenceNumber = r
          /\ IsNil(files[r]) )
        => /\ LoadHistory(files, r, "") =
                [ history |-> Ptr([ ReferenceNumber |-> r, Snapshots |-> << >> ]),
                  err     |-> "" ]
           /\ retErr' = ""
           /\ retDiffs' = << >>
           /\ saved'
           /\ ~IsNil(files'[r])
           /\ Deref(files'[r]).complete
           /\ Deref(files'[r]).json.referenceNumber = r
           /\ Len(Record(files', r)) = 1
           /\ Record(files', r)[1].data = marshalCombinedOrder(argOrder')
    ]_vars

\* the first order of RN2, for which SaveHistory is never called directly,
\* has been recorded
C4_Witness ==
  /\ op = "AddSnapshot" /\ saved /\ retDiffs = << >>
  /\ argOrder = OrderB("RN2")
  /\ Len(Record(files, "RN2")) = 1

\* the snapshots SaveHistory keeps of the history it is handed
Kept(snapshots) ==
  IF Len(snapshots) > maxHistoryEntries
  THEN [ i \in 1..maxHistoryEntries |->
           snapshots[Len(snapshots) - maxHistoryEntries + i] ]
  ELSE snapshots

\* a snapshot without the data that is kept for display only
WithoutRaw(snapshot) ==
  [ snapshot EXCEPT !.Data.Details.RawJSON = Nil, !.Data.Details.Tasks.Raw = Nil ]

\* C10 as stated: SaveHistory on n snapshots persists the last 20 in their
\* order when n > 20 and all n otherwise, and a following LoadHistory returns
\* that sequence.
C10_SaveThenLoadReturnsSame ==
  op = "SaveHistory" =>
    LET r    == argHistory.ReferenceNumber
        kept == Kept(argHistory.Snapshots)
    IN  /\ retErr = ""
        /\ ~IsNil(files[r])
        /\ Record(files, r) = [ i \in 1..Len(kept) |-> marshalHistoricalSnapshot(kept[i]) ]
        /\ LoadHistory(files, r, "").err = ""
        /\ Stored(files, r) = kept

\* C10 (amended): SaveHistory on n snapshots persists the last 20 in their
\* order when n > 20 and all n otherwise, and a following LoadHistory returns
\* that sequence with the display-only raw data of each snapshot (RawJSON,
\* Tasks.Raw) absent.
C10_SaveThenLoadReturnsPersisted ==
  op = "SaveHistory" =>
    LET r    == argHistory.ReferenceNumber
        kept == Kept(argHistory.Snapshots)
    IN  /\ retErr = ""
        /\ ~IsNil(files[r])
        /\ Record(files, r) = [ i \in 1..Len(kept) |-> marshalHistoricalSnapshot(kept[i]) ]
        /\ LoadHistory(files, r, "").err = ""
        /\ Stored(files, r) = [ i \in 1..Len(kept) |-> WithoutRaw(kept[i]) ]

\* SaveHistory was handed more than 20 snapshots, among them orders with raw
\* data and an empty VIN string, and 20 are stored
C10_Witness ==
  /\ op = "SaveHistory"
  /\ Len(argHistory.Snapshots) > maxHistoryEntries
  /\ \E i \in 1..Len(argHistory.Snapshots) :
       argHistory.Snapshots[i].Data = OrderA2(argHistory.ReferenceNumber)
  /\ Len(Stored(files, argHistory.ReferenceNumber)) = maxHistoryEntries


----------------------------------------------------------------------------
(* Properties of the history store under storage faults (SpecFault) and of *)
(* GetLatestSnapshot (Spec)                                                *)

\* the reference number the operation of the step is called on
Target(operation, order, history) ==
  IF operation = "AddSnapshot" THEN order.Order.ReferenceNumber
  ELSE history.ReferenceNumber

\* whether AddSnapshot(order) on the directory fs has a snapshot to record:
\* the history loads and is empty or its newest snapshot differs from order
MustRecord(fs, order, readFault) ==
  LET loaded == LoadHistory(fs, order.Order.ReferenceNumber, readFault)
  IN  /\ loaded.err = ""
      /\ \/ Len(Deref(loaded.history).Snapshots) = 0
         \/ CompareOrders(Deref(loaded.history).Snapshots[
                            Len(Deref(loaded.history).Snapshots)].Data, order) # << >>

\* C11: when a write of a history record fails (SaveHistory returns an error,
\* called directly or by AddSnapshot), a later LoadHistory of that reference
\* number returns what it returned before the failed write.
C11_FailedWriteKeepsRecord ==
  [][ ( /\ op' \in { "SaveHistory", "AddSnapshot" }
        /\ ioFault'.write # ""
        /\ retErr' # ""
        /\ ioFault'.read = "" )
      => LET r == Target(op', argOrder', argHistory')
         IN  LoadHistory(files', r, "") = LoadHistory(files, r, "")
    ]_vars

\* C14: in AddSnapshot, a failing LoadHistory gives an error, no diffs and no
\* write; a failing SaveHistory gives an error and no diffs; and when
\* AddSnapshot returns no error for an order it had to record, the record is
\* complete and its newest snapshot holds that order.
C14_FaultsReachCaller ==
  [][ op' = "AddSnapshot" =>
        LET r      == argOrder'.Order.ReferenceNumber
            loaded == LoadHistory(files, r, ioFault'.read)
            must   == MustRecord(files, argOrder', ioFault'.read)
        IN  /\ loaded.err # "" =>
                 /\ retErr' # ""
                 /\ retDiffs' = << >>
                 /\ files' = files
            /\ ( must /\ ioFault'.write # "" ) =>
                 /\ retErr' # ""
                 /\ retDiffs' = << >>
            /\ ( must /\ retErr' = "" ) =>
                 /\ ~IsNil(files'[r])
                 /\ Deref(files'[r]).complete
                 /\ Len(Deref(files'[r]).json.snapshots) > 0
                 /\ Deref(files'[r]).json.snapshots[
                      Len(Deref(files'[r]).json.snapshots)].data
                      = marshalCombinedOrder(argOrder')
    ]_vars

\* AddSnapshot had a changed order to record, the write failed after the
\* file was truncated, and the caller got the error
C14_Witness ==
  /\ op = "AddSnapshot" /\ saved
  /\ argOrder = OrderB("RN1")
  /\ ioFault = [ read |-> "", write |-> "write" ]
  /\ retErr = "failed to save history"
  /\ retDiffs = << >>
  /\ ~IsNil(files["RN1"]) /\ ~Deref(files["RN1"]).complete

\* C16: GetLatestSnapshot(R) returns nil and no error when R has no persisted
\* snapshot and otherwise the last snapshot of the persisted record; an
\* AddSnapshot call that records its order (the first call, or one that
\* detected a change) makes that order's snapshot the latest, and an
\* AddSnapshot call that detects no change leaves the latest as it was.
C16_LatestIsLastRecorded ==
  /\ [] ( \A r \in Refs :
            LET latest == GetLatestSnapshot(files, r, "")
            IN  /\ latest.err = ""
                /\ IF IsNil(files[r]) \/ Len(Record(files, r)) = 0
                   THEN latest.snapshot = Nil
                   ELSE /\ ~IsNil(latest.snapshot)
                        /\ marshalHistoricalSnapshot(Deref(latest.snapshot))
                             = Record(files, r)[Len(Record(files, r))] )
  /\ [][ op' = "AddSnapshot" =>
           LET r      == argOrder'.Order.ReferenceNumber
               before == GetLatestSnapshot(files, r, "")
               after  == GetLatestSnapshot(files', r, "")
           IN  IF MustRecord(files, argOrder', "")
               THEN /\ ~IsNil(after.snapshot)
                    /\ Deref(after.snapshot).Timestamp = TimeNow(Stored(files, r))
                    /\ marshalCombinedOrder(Deref(after.snapshot).Data)
                         = marshalCombinedOrder(argOrder')
               ELSE after = before
       ]_vars

\* AddSnapshot has detected no change for RN1, whose latest snapshot is still
\* the booked order recorded by the first call, while RN2 has no snapshot
C16_Witness ==
  /\ op = "AddSnapshot" /\ ~saved /\ retErr = ""
  /\ argOrder = OrderA2("RN1")
  /\ GetLatestSnapshot(files, "RN1", "") =
       [ snapshot |-> Ptr([ Timestamp |-> 1, Data |-> OrderA("RN1") ]), err |-> "" ]
  /\ IsNil(files["RN2"])
  /\ GetLatestSnapshot(files, "RN2", "") = [ snapshot |-> Nil, err |-> "" ]

\* C17: AddSnapshot and SaveHistory for reference number R leave the record
\* of every other reference number as it was, and what AddSnapshot returns
\* does not depend on the records of the other reference numbers.
C17_OtherRecordsUntouched ==
  [][ op' \in { "SaveHistory", "AddSnapshot" } =>
        LET r == Target(op', argOrder', argHistory')
        IN  \A other \in Refs \ { r } :
              /\ files'[other] = files[other]
              /\ op' = "AddSnapshot" =>
                   LET without == AddSnapshot([ files EXCEPT ![other] = Nil ], argOrder',
                                              ioFault'.read, ioFault'.write)
                   IN  /\ without.diffs = retDiffs'
                       /\ without.err = retErr'
                       /\ without.files[r] = files'[r]
    ]_vars

\* a changed order of RN2 has been recorded while RN1 holds a full record of
\* its own
C17_Witness ==
  /\ op = "AddSnapshot" /\ saved /\ retErr = ""
  /\ argOrder = OrderB("RN2")
  /\ Len(retDiffs) > 0
  /\ ~IsNil(files["RN1"]) /\ Deref(files["RN1"]).complete
  /\ Len(Record(files, "RN1")) = maxHistoryEntries
  /\ Len(Record(files, "RN2")) = 2


----------------------------------------------------------------------------
(* Properties of the checklist store (checked under SpecChecklist) *)

\* the persisted checked flag of item id of order r: what LoadState returns
CheckedFlag(fs, r, id) ==
  MapGet(Deref(Deref(LoadState(fs, r, "").state).Checked), id)

\* C19: ToggleItem(R, i) returns no error and the negation of the persisted
\* flag of item i of R, which is the persisted flag afterwards; every other
\* item of R and every item of every other order keeps its persisted flag;
\* and a second ToggleItem(R, i) right after the first leaves every persisted
\* flag as it was before the first.
C19_ToggleFlipsOneItem ==
  [][ clCall'.name = "ToggleItem" =>
        LET r == clCall'.referenceNumber
            i == clCall'.itemID
        IN  /\ clCall'.err = ""
            /\ LoadState(checklists', r, "").err = ""
            /\ clCall'.newValue = ~CheckedFlag(checklists, r, i)
            /\ CheckedFlag(checklists', r, i) = clCall'.newValue
            /\ \A id \in ItemIDs \ { i } :
                 CheckedFlag(checklists', r, id) = CheckedFlag(checklists, r, id)
            /\ \A other \in Refs \ { r } : checklists'[other] = checklists[other]
            /\ ( /\ clCall.name = "ToggleItem"
                 /\ clCall.referenceNumber = r
                 /\ clCall.itemID = i )
               => \A q \in Refs, id \in ItemIDs :
                    CheckedFlag(checklists', q, id) = CheckedFlag(checklistsBefore, q, id)
    ]_vars

\* an item of RN1 has been checked and unchecked again while another item of
\* RN1 and an item of RN2 stay checked
C19_Witness ==
  /\ clCall = [ name |-> "ToggleItem", referenceNumber |-> "RN1", itemID |-> "insured",
                newValue |-> FALSE, err |-> "" ]
  /\ CheckedFlag(checklistsBefore, "RN1", "insured")
  /\ ~CheckedFlag(checklists, "RN1", "insured")
  /\ CheckedFlag(checklists, "RN1", "finance_sorted")
  /\ CheckedFlag(checklists, "RN2", "paint_check")


----------------------------------------------------------------------------
(* Properties of token storage (checked under SpecTokens) *)

\* C20: with the keyring unavailable and with a working keyring, after any
\* sequence of SaveTokens and DeleteTokens (and LoadTokens, HasTokens) calls
\* LoadTokens returns no error and the access and refresh token of the last
\* SaveTokens, or nil when none was saved since the last DeleteTokens; and
\* HasTokens is true exactly when LoadTokens returns tokens.
C20_TokenStorageIsOneSlot ==
  LET loaded == LoadTokens(config, "")
  IN  /\ loaded.err = ""
      /\ IsNil(loaded.tokens) = IsNil(slot)
      /\ ~IsNil(slot) =>
           /\ Deref(loaded.tokens).AccessToken = Deref(slot).AccessToken
           /\ Deref(loaded.tokens).RefreshToken = Deref(slot).RefreshToken
      /\ HasTokens(config) = ~IsNil(loaded.tokens)
      /\ cfgCall.name = "LoadTokens" => cfgCall.tokens = loaded.tokens /\ cfgCall.err = ""
      /\ cfgCall.name = "HasTokens" => cfgCall.has = ~IsNil(slot)

\* on a working keyring LoadTokens has returned the second tokens saved, after
\* a DeleteTokens and two SaveTokens left the keyring entry and no tokens file
C20_Witness ==
  /\ config.keyringAvailable
  /\ cfgCall.name = "LoadTokens"
  /\ ~IsNil(cfgCall.tokens)
  /\ Deref(cfgCall.tokens).AccessToken = "access789"
  /\ Deref(cfgCall.tokens).RefreshToken = "refresh456"
  /\ Deref(cfgCall.tokens).ExpiresAt = 2000 + 3600
  /\ ~IsNil(config.keyring) /\ IsNil(config.tokensFile)


----------------------------------------------------------------------------
(* Properties of a history built by AddSnapshot alone (SpecSequential) *)

\* C24: in a record written only by AddSnapshot calls made one after the
\* other, CompareOrders of any two adjacent snapshots, as LoadHistory returns
\* them from the JSON file, is non-empty; pruned records included.
C24_AdjacentSnapshotsDiffer ==
  \A r \in Refs :
    \A i \in 1..(Len(Stored(files, r)) - 1) :
      Len(CompareOrders(Stored(files, r)[i].Data, Stored(files, r)[i + 1].Data)) > 0

\* a record AddSnapshot has just appended to and SaveHistory has pruned: it
\* holds maxHistoryEntries snapshots and no longer the first
C24_Witness ==
  \E r \in Refs :
    /\ op = "AddSnapshot" /\ saved /\ retErr = ""
    /\ argOrder.Order.ReferenceNumber = r
    /\ Len(Stored(files, r)) = maxHistoryEntries
    /\ Stored(files, r)[1].Timestamp > 1

----------------------------------------------------------------------------
(* Properties of the TUI (checked under SpecTUI) *)

\* the loadOrders goroutines whose AddSnapshot of the record r has loaded the
\* history and has not yet returned, each counted as often as it runs
Ingesting(r) ==
  LET inside == { g \in BagToSet(goroutines) :
                    /\ g.cmd.name = "loadOrders"
                    /\ g.pc \in { "os.WriteFile", "write" }
                    /\ CurrentOrder(g).Order.ReferenceNumber = r }
  IN  IF \E g \in inside : CopiesIn(g, goroutines) > 1 THEN 2 ELSE Cardinality(inside)

\* C12: a LoadHistory that runs while a SaveHistory of the same reference
\* number is between opening and closing the file returns a complete record:
\* the tab bar rendered during such a write has loaded the history without
\* an error.
C12_ReaderSeesWholeRecord ==
  tabBar.during => tabBar.err = ""

\* C13: in the TUI no two AddSnapshot calls on the same history record
\* overlap: at any time at most one loadOrders goroutine is between the
\* LoadHistory and the end of the SaveHistory of a record.
C13_IngestionsSerialized ==
  \A r \in Refs : Ingesting(r) <= 1

\* the results of the AddSnapshot calls of the loadOrders that last returned
Results == Deref(returned).results

\* an AddSnapshot of the loadOrders that last returned failed
SomeFailed == \E k \in DOMAIN Results : Results[k].err # ""

\* the message of the loadOrders that last returned carries no error and
\* every fetched order, and every fetched order was ingested
CarriesAllOrders ==
  /\ Deref(returned).msg.Error = ""
  /\ Deref(returned).msg.Orders = Deref(returned).fetched
  /\ Len(Results) = Len(Deref(returned).fetched)
  /\ \A k \in DOMAIN Results :
       Results[k].referenceNumber = Deref(returned).fetched[k].Order.ReferenceNumber
  /\ uiModel.orders = Deref(returned).fetched

\* C15 as stated: when AddSnapshot fails for some orders, the message carries
\* no error and every fetched order, and the orders without a diffs entry
\* are exactly the failing ones.
C15_OnlyFailingLackEntry ==
  ( ~IsNil(returned) /\ SomeFailed ) =>
    /\ CarriesAllOrders
    /\ \A k \in DOMAIN Results :
         ( Results[k].referenceNumber \notin DOMAIN Deref(returned).msg.Diffs )
           <=> Results[k].err # ""

\* C15 amended: when AddSnapshot fails for some orders, the message carries no
\* error and every fetched order, every order was ingested and the model
\* shows the fetched orders; a failing order has no diffs entry, and every
\* other order has an entry exactly when its own AddSnapshot returned diffs.
C15_FailuresCostOnlyOwnEntry ==
  ( ~IsNil(returned) /\ SomeFailed ) =>
    /\ CarriesAllOrders
    /\ \A k \in DOMAIN Results :
         LET present == Results[k].referenceNumber \in DOMAIN Deref(returned).msg.Diffs
         IN  IF Results[k].err # ""
             THEN ~present
             ELSE /\ present <=> Len(Results[k].diffs) > 0
                  /\ present =>
                       Deref(returned).msg.Diffs[Results[k].referenceNumber] = Results[k].diffs

\* a refresh whose AddSnapshot of the second order failed returned the diffs
\* of the first order, and the model shows the delivered first order
C15_Witness ==
  /\ ~IsNil(returned)
  /\ Len(Results) = 2
  /\ Results[2].err # ""
  /\ Len(Results[1].diffs) > 0
  /\ DOMAIN uiModel.diffs = { "RN1" }
  /\ uiModel.orders[1] = OrderB("RN1")
  /\ ~uiModel.loading

\* C18: while the last loadOrders to return returned without an error, the
\* diffs of the model are those of that refresh: an entry for a reference
\* number if and only if its AddSnapshot in that refresh returned a
\* non-empty diff list, holding that list, whatever the model held before.
C18_DiffsAreThoseOfTheCycle ==
  ( ~IsNil(returned) /\ Deref(returned).msg.Error = "" ) =>
    /\ \A r \in Refs :
         r \in DOMAIN uiModel.diffs <=>
           \E k \in DOMAIN Results :
             /\ Results[k].referenceNumber = r
             /\ Results[k].err = ""
             /\ Len(Results[k].diffs) > 0
    /\ \A k \in DOMAIN Results :
         Results[k].referenceNumber \in DOMAIN uiModel.diffs =>
           uiModel.diffs[Results[k].referenceNumber] = Results[k].diffs
    /\ DOMAIN uiModel.diffs \subseteq Refs

\* a refresh without changes has emptied a diff map that held the diffs of
\* the refresh before
C18_Witness ==
  /\ ~IsNil(returned)
  /\ Deref(returned).msg.Error = ""
  /\ DOMAIN Deref(returned).before = { "RN1" }
  /\ Len(Results) = 2
  /\ \A k \in DOMAIN Results : Results[k].err = "" /\ Len(Results[k].diffs) = 0
  /\ DOMAIN uiModel.diffs = { }

----------------------------------------------------------------------------
(* Properties of a session of the TUI (checked under SpecSession) *)

\* the names of the commands cmds
Names(cmds) == [ k \in DOMAIN cmds |-> cmds[k].name ]

\* whether the command name is among cmds
Issues(cmds, name) == \E k \in DOMAIN cmds : cmds[k].name = name

\* the view is the orders list, no load is marked in progress, tokens are set
Idle(m) == m.view = "ViewOrders" /\ ~m.loading /\ ~IsNil(m.tokens)

\* C21: in every state the session reaches, Update on an AutoRefreshTickMsg
\* issues loadOrders or sets loading only if the view is the orders list, no
\* load is marked in progress and tokens are set; in every other state it
\* leaves the model and what the model points to as they are and returns
\* only scheduleAutoRefresh (nothing when auto-refresh is off).
C21_TickLoadsOnlyWhenIdle ==
  \E r \in { Update(uiModel, [ type |-> "AutoRefreshTickMsg" ], Env) } :
    /\ Issues(r.cmds, "loadOrders") => Idle(uiModel)
    /\ r.m.loading # uiModel.loading => Idle(uiModel)
    /\ ~Idle(uiModel) =>
         /\ r.m = uiModel
         /\ r.e = Env
         /\ Names(r.cmds) = IF uiModel.autoRefresh THEN << "scheduleAutoRefresh" >>
                            ELSE << >>

\* a tick has arrived while a load was marked in progress on the orders list
\* of a signed-in session: Update only scheduled the next tick
C21_Witness ==
  /\ handled.type = "AutoRefreshTickMsg"
  /\ handled.cmds = << "scheduleAutoRefresh" >>
  /\ uiModel.view = "ViewOrders" /\ uiModel.loading /\ ~IsNil(uiModel.tokens)
  /\ InFlight("scheduleAutoRefresh") # { }

\* the keys of the key bindings
BoundKeys ==
  SessionKeys \cup ConfirmationKeys \cup { "ctrl+c", "k", "j", "c", "tab", "shift+tab", " " }

\* the messages of the terminal and of the timers
TerminalMessages ==
  { [ type |-> "KeyMsg", key |-> key ] : key \in BoundKeys }
  \cup { [ type |-> "MouseMsg", mouse |-> mouse ] : mouse \in MouseEvents }
  \cup { [ type |-> "AutoRefreshTickMsg" ], [ type |-> "ClearToastMsg" ] }

\* C22: in every state the session reaches, Update returns the logout command
\* only for the key 'y' or 'Y' while a logout confirmation is pending, and a
\* confirmation becomes pending only by 'L' in the orders view; while it is
\* pending 'y' and 'Y' clear it and return logout alone, 'n', 'N' and esc
\* clear it and change nothing else, and every other key changes nothing and
\* returns no command.
C22_LogoutNeedsConfirmation ==
  \A msg \in TerminalMessages :
    \E r \in { Update(uiModel, msg, Env) } :
      /\ Issues(r.cmds, "logout") =>
           uiModel.confirmingLogout /\ msg.type = "KeyMsg" /\ msg.key \in { "y", "Y" }
      /\ ( ~uiModel.confirmingLogout /\ r.m.confirmingLogout ) =>
           msg.type = "KeyMsg" /\ msg.key = "L" /\ uiModel.view = "ViewOrders"
      /\ ( uiModel.confirmingLogout /\ msg.type = "KeyMsg" ) =>
           /\ r.e = Env
           /\ r.m = IF msg.key \in { "y", "Y", "n", "N", "esc" }
                    THEN [ uiModel EXCEPT !.confirmingLogout = FALSE ]
                    ELSE uiModel
           /\ Names(r.cmds) = IF msg.key \in { "y", "Y" } THEN << "logout" >> ELSE << >>

\* the user has opened the confirmation and answered 'y': the logout command
\* runs and the saved tokens are still there
C22_Witness ==
  /\ handled.type = "KeyMsg" /\ handled.key = "y"
  /\ handled.cmds = << "logout" >>
  /\ ~uiModel.confirmingLogout
  /\ InFlight("logout") # { }
  /\ HasTokens(config)

\* the views '?' opens the help from
HelpOpensFrom(m) ==
  \/ m.view \in { "ViewOrders", "ViewDetail" }
  \/ m.view = "ViewLogin" /\ ~m.authenticating /\ IsNil(m.authSession)

\* the keys that leave the help view
BackKeys == { "esc", "?", "enter", "backspace" }

\* '?' pressed in the state of the model shows the help view, and each of
\* BackKeys pressed next gives the model back with nothing but the
\* remembered view changed, which is the view the help was opened from
HelpRoundTrip ==
  \E opened \in { Update(uiModel, [ type |-> "KeyMsg", key |-> "?" ], Env) } :
    /\ opened.m.view = "ViewHelp"
    /\ opened.cmds = << >>
    /\ \A key \in BackKeys :
         \E back \in { Update(opened.m, [ type |-> "KeyMsg", key |-> key ], opened.e) } :
           /\ back.m = [ uiModel EXCEPT !.previousView = uiModel.view ]
           /\ back.e = Env
           /\ back.cmds = << >>

\* C23 as stated: in every state the session reaches whose view is the orders
\* list, the detail view or the login view with no authentication in
\* progress, '?' shows the help and esc, '?', enter or backspace then return
\* to the same view with the model otherwise unchanged; and the remembered
\* previous view is never the help view.
C23_HelpRoundTrip ==
  /\ HelpOpensFrom(uiModel) => HelpRoundTrip
  /\ uiModel.previousView # "ViewHelp"

\* C23 amended: the same, in the states in which no logout confirmation is
\* pending.
C23_HelpRoundTripUnlessConfirming ==
  /\ ( HelpOpensFrom(uiModel) /\ ~uiModel.confirmingLogout ) => HelpRoundTrip
  /\ uiModel.previousView # "ViewHelp"

\* the user has opened the help from the detail view of the second order and
\* left it with backspace, which in the detail view itself leads to the list
C23_Witness ==
  /\ handled.type = "KeyMsg" /\ handled.key = "backspace"
  /\ uiModel.view = "ViewDetail" /\ uiModel.previousView = "ViewDetail"
  /\ uiModel.selectedOrder = 1 /\ Len(uiModel.orders) = 2

\* C25: outside demo mode, in every state the session reaches in which the
\* view is the orders list or the detail view, the model holds tokens.
C25_OrdersViewsNeedTokens ==
  ( ~uiModel.demoMode /\ uiModel.view \in { "ViewOrders", "ViewDetail" } ) =>
    ~IsNil(uiModel.tokens)

\* the user has signed in again after a logout: the orders list shows, on
\* the tokens of the AuthResultMsg, in a session that has loaded orders before
C25_Witness ==
  /\ handled.type = "AuthResultMsg"
  /\ uiModel.view = "ViewOrders"
  /\ ~IsNil(uiModel.tokens)
  /\ uiModel.lastRefresh # 0
  /\ uiModel.orders = << >>

\* the model holds no tokens: no AuthResultMsg without error has been handled
\* yet, or none since the last LogoutMsg
SignedOut(m) == IsNil(m.tokens)

\* C26: from a LogoutMsg to the next AuthResultMsg without error the model
\* holds no orders and no diffs, and no step in between writes a history
\* record. (Before the first sign-in the model holds no tokens either, no
\* load has been started and both hold as well.)
C26_NothingAfterLogout ==
  [][ /\ SignedOut(uiModel') => ( uiModel'.orders = << >> /\ uiModel'.diffs = << >> )
      /\ ( SignedOut(uiModel) /\ SignedOut(uiModel') ) => files' = files ]_vars

\* C29: in every reachable state of the model in which the order list is not
\* empty, selectedOrder is a valid index of it (0 <= selectedOrder < number
\* of orders), whatever keys are pressed, mouse events arrive, refreshes
\* return and logouts and logins happen.
C29_SelectedOrderValid ==
  Len(uiModel.orders) > 0 =>
    ( 0 <= uiModel.selectedOrder /\ uiModel.selectedOrder < Len(uiModel.orders) )

----------------------------------------------------------------------------
(* Properties of the refresh cycle (checked under SpecWatch) *)

\* the number of goroutines that run the command name among gs
CountOf(gs, name) ==
  BagCardinality([ g \in { h \in BagToSet(gs) : h.cmd.name = name } |-> gs[g] ])

\* auto-refresh is on and an OrdersLoadedMsg has been handled
CycleStarted(m) == m.autoRefresh /\ m.lastRefresh # 0

\* a tick of the auto-refresh is pending or a load is in flight
CycleAlive ==
  CountOf(goroutines, "scheduleAutoRefresh") > 0 \/ CountOf(goroutines, "loadOrders") > 0

\* the user is authenticated on the orders view and the program runs
Watching ==
  ~Quitting /\ uiModel.view = "ViewOrders" /\ ~IsNil(uiModel.tokens)

\* a step that starts a load
LoadStarted == CountOf(goroutines', "loadOrders") > CountOf(goroutines, "loadOrders")

\* C27: with auto-refresh on, in every state after the first OrdersLoadedMsg
\* (with or without an error) has been handled and while the program runs, a
\* tick of the auto-refresh is pending or a load is in flight; and if from
\* some state on the user stays authenticated on the orders view, loads are
\* started again and again.
C27_RefreshCycleNeverDies ==
  /\ []( ( CycleStarted(uiModel) /\ ~Quitting ) => CycleAlive )
  /\ ( <>[]( CycleStarted(uiModel) /\ Watching ) => []<><<LoadStarted>>_vars )

\* the first load has failed and the tick after it is pending
C27_Witness ==
  /\ CycleStarted(uiModel)
  /\ Watching
  /\ uiModel.err # ""
  /\ handled.type = "OrdersLoadedMsg"
  /\ CountOf(goroutines, "scheduleAutoRefresh") > 0
  /\ CountOf(goroutines, "loadOrders") = 0

----------------------------------------------------------------------------
(* Properties of the api.Client under concurrent requests (SpecClient) *)

\* the requests inside a RefreshTokens call
Refreshing ==
  { i \in RequestIds : requests[i].pc \in { "Ensure_RefreshTokens", "Retry_RefreshTokens" } }

\* the requests at an assignment to c.tokens
Replacing ==
  { i \in RequestIds : requests[i].pc \in { "Ensure_Assign", "Retry_Assign" } }

\* the requests at a statement that reads c.tokens
Reading ==
  { i \in RequestIds : requests[i].pc \in
      { "EnsureValidTokens", "Ensure_Call", "Header", "Retry_Call", "Retry_Header" } }

\* C28: while several requests run doRequest on one client, at most one of
\* them is inside a RefreshTokens call, at most one is at an assignment to
\* the tokens field, and none is at a read of the tokens field while another
\* is at an assignment to it.
C28_OneRefreshAtATime ==
  /\ Cardinality(Refreshing) <= 1
  /\ Cardinality(Replacing) <= 1
  /\ \A i \in Replacing : Reading \ { i } = { }

----------------------------------------------------------------------------
(* Properties of the diff engine (checked under SpecDiff) *)

\* the display string of the compared field label of order c; for the
\* options, the mktOptions string with nil replaced by "N/A"
DisplayOf(label, c) ==
  CASE label = "Order Status"           -> c.Order.OrderStatus
    [] label = "VIN"                    -> GetVIN(c.Order)
    [] label = "Delivery Window"        -> GetDeliveryWindow(c)
    [] label = "Delivery Appointment"   -> GetDeliveryAppointment(c)
    [] label = "ETA to Delivery Center" -> GetETAToDeliveryCenter(c)
    [] label = "Vehicle Location"       -> GetVehicleLocation(c)
    [] label = "Delivery Method"        -> GetDeliveryType(c)
    [] label = "Delivery Center"        -> GetDeliveryCenter(c)
    [] label = "Odometer"               -> GetOdometer(c)
    [] label = "License Plate"          -> GetLicensePlate(c)
    [] label = "Reservation Date"       -> GetReservationDate(c)
    [] label = "Order Booked Date"      -> GetOrderBookedDate(c)
    [] label = "Vehicle Options"        ->
         IF c.Order.MktOptions = << >> THEN "N/A" ELSE c.Order.MktOptions[1]

\* the position of a label in the fixed enumeration
PositionOf(label) == CHOOSE k \in 1..Len(DisplayLabels) : DisplayLabels[k] = label

\* C5: CompareOrders(x, x) returns no diffs for every order x, also when
\* every optional sub-object, the VIN and mktOptions are absent.
C5_CompareSelfIsEmpty ==
  (called = "CompareOrders" /\ old = new) => diffs = << >>

\* an order with nothing but a status has been compared with itself
C5_Witness ==
  /\ called = "CompareOrders"
  /\ old = new
  /\ new = ZeroCombinedOrder("RN1", "BOOKED")
  /\ diffs = << >>

\* C6: CompareOrders(old, new) holds a diff for a compared field exactly when
\* the display strings of the field differ, at most one per label, and the
\* diff carries the two display strings.
C6_DiffIffDisplayDiffers ==
  called = "CompareOrders" =>
    /\ \A i \in 1..Len(diffs) : \E k \in 1..Len(DisplayLabels) : diffs[i].Field = DisplayLabels[k]
    /\ \A k \in 1..Len(DisplayLabels) :
         LET label == DisplayLabels[k]
             hits  == { i \in 1..Len(diffs) : diffs[i].Field = label }
         IN  /\ Cardinality(hits) <= 1
             /\ (hits # { }) <=> (DisplayOf(label, old) # DisplayOf(label, new))
             /\ \A i \in hits :
                  /\ diffs[i].OldValue = DisplayOf(label, old)
                  /\ diffs[i].NewValue = DisplayOf(label, new)

\* all thirteen fields differ and thirteen diffs were returned
C6_Witness ==
  /\ called = "CompareOrders"
  /\ Len(diffs) = 13
  /\ \A k \in 1..Len(DisplayLabels) :
       DisplayOf(DisplayLabels[k], old) # DisplayOf(DisplayLabels[k], new)

\* C7: the diffs of CompareOrders follow the fixed enumeration Order Status,
\* VIN, ..., Order Booked Date, Vehicle Options, whichever fields changed.
C7_DiffsInEnumerationOrder ==
  called = "CompareOrders" =>
    /\ \A i \in 1..Len(diffs) : \E k \in 1..Len(DisplayLabels) : diffs[i].Field = DisplayLabels[k]
    /\ \A i, j \in 1..Len(diffs) :
         i < j => PositionOf(diffs[i].Field) < PositionOf(diffs[j].Field)

\* only the license plate and the options changed, and the options come last
C7_Witness ==
  /\ called = "CompareOrders"
  /\ Len(diffs) = 2
  /\ diffs[1].Field = "License Plate"
  /\ diffs[2].Field = "Vehicle Options"

\* whether the sub-object that owns the field label of order c, or the field
\* itself, is absent or empty
FieldAbsent(label, c) ==
  LET t  == c.Details.Tasks
      od == Deref(Deref(t.Registration).OrderDetails)
      noSched == IsNil(t.Scheduling)
      noReg   == IsNil(t.Registration) \/ IsNil(Deref(t.Registration).OrderDetails)
  IN CASE label = "VIN"                    -> IsNil(c.Order.VIN) \/ Deref(c.Order.VIN) = ""
       [] label = "Delivery Window"        -> noSched \/ Deref(t.Scheduling).DeliveryWindowDisplay = ""
       [] label = "Delivery Appointment"   -> noSched \/ Deref(t.Scheduling).ApptDateTimeAddressStr = ""
       [] label = "Delivery Method"        -> noSched \/ Deref(t.Scheduling).DeliveryType = ""
       [] label = "Delivery Center"        -> noSched \/ Deref(t.Scheduling).DeliveryAddressTitle = ""
       [] label = "ETA to Delivery Center" ->
            \/ IsNil(t.FinalPayment) \/ IsNil(Deref(t.FinalPayment).Data)
            \/ Deref(Deref(t.FinalPayment).Data).ETAToDeliveryCenter = ""
       [] label = "License Plate"          ->
            \/ IsNil(t.DeliveryDetails) \/ IsNil(Deref(t.DeliveryDetails).RegData)
            \/ Deref(Deref(t.DeliveryDetails).RegData).ReggieLicensePlate = ""
       [] label = "Vehicle Location"       -> noReg \/ od.VehicleRoutingLocation = ""
       [] label = "Odometer"               -> noReg \/ od.VehicleOdometer = ""
       [] label = "Reservation Date"       -> noReg \/ od.ReservationDate = ""
       [] label = "Order Booked Date"      -> noReg \/ od.OrderBookedDate = ""

\* C8: every display accessor returns "N/A" whenever the owning sub-object is
\* absent or the field itself is absent or empty.
C8_AccessorsReturnSentinel ==
  called = "Accessors" =>
    \A label \in DOMAIN shown : FieldAbsent(label, new) => shown[label] = NA

\* the VIN display string of an order whose VIN is nil or the empty string
NoVIN(c) == c.Order.VIN = Nil \/ c.Order.VIN = Ptr("")

\* C9: a nil VIN and an empty VIN both display as "N/A"; comparing either
\* with an order that differs only by a non-empty VIN v returns the single
\* diff (VIN, "N/A", v); comparing the two with each other returns no VIN diff.
C9_VINSentinel ==
  /\ (called = "Accessors" /\ NoVIN(new)) => shown["VIN"] = "N/A"
  /\ called = "CompareOrders" =>
       /\ ( /\ NoVIN(old) /\ ~NoVIN(new)
            /\ new = [ old EXCEPT !.Order.VIN = new.Order.VIN ] )
          => diffs = << [ Field |-> "VIN", OldValue |-> "N/A",
                          NewValue |-> new.Order.VIN[1] ] >>
       /\ (NoVIN(old) /\ NoVIN(new))
          => \A i \in 1..Len(diffs) : diffs[i].Field # "VIN"

\* an order with an empty VIN string was compared with the same order
\* carrying a VIN, and the one VIN diff came back
C9_Witness ==
  /\ called = "CompareOrders"
  /\ old.Order.VIN = Ptr("")
  /\ new = [ old EXCEPT !.Order.VIN = Ptr(DemoVIN) ]
  /\ diffs = << [ Field |-> "VIN", OldValue |-> "N/A", NewValue |-> DemoVIN ] >>


====
